---- MODULE Spec2Model ----
(***************************************************************************)
(* A model of autopipy's temporal segmentation and trajectory analytics:   *)
(* Lever (lever.py), Session.segmentTrialsFromLog (session.py),            *)
(* Trial.extractTrialFeatures (trial.py), Journey (journey.py) and         *)
(* NavPath (navPath.py).                                                   *)
(*                                                                         *)
(* Lengths are integers in units of 1/20 cm, times are                     *)
(* integers in ticks of 0.05 s.  A missing value (numpy NaN) is the integer *)
(* NaN, which lies outside every range of coordinates and times; every     *)
(* operator tests IsNaN before it computes or compares, as numpy's NaN     *)
(* makes every comparison false.  Row labels of the pandas tables are kept *)
(* as in the code (the frame number); TLA+ sequences are 1-based, so frame *)
(* numbers start at 1.                                                     *)
(***************************************************************************)
EXTENDS Integers, Sequences, FiniteSets, TLC

VARIABLES
    \* ---- Lever object and one call of Lever.isAt ----
    isAtLever,            \* Lever.isAtLever
    leverZoneMaxDistance, \* Lever.leverZoneMaxDistance (NaN until configured)
    points,               \* argument of the running isAt call
    method,               \* argument of the running isAt call
    res,                  \* the result array being filled, as a sequence
    lpc,                  \* position in isAt: "idle", "zones", "maxDistance"
    lret,                 \* what the last call gave: "none", "returned", "ValueError"
    \* ---- Session.segmentTrialsFromLog ----
    log,                  \* the rows of the session log, in file order
    doorEvents,           \* the doorEvents data frame
    probIndices,          \* the index labels the repair loop still has to visit
    trials,               \* the trials data frame
    spc,                  \* position in segmentTrialsFromLog, or the error raised
    \* ---- the session tables Trial.extractTrialFeatures is given ----
    mLPosi,               \* mouse position of every video frame, <<x, y>>
    videoLog,             \* time of every video frame; the row label is the frame number
    \* ---- one Trial object and its extractTrialFeatures call ----
    startTime,            \* Trial.startTime
    endTime,              \* Trial.endTime
    valid,                \* Trial.valid
    back,                 \* the local variable back of the start-time repair
    trialMLPx,            \* row labels of the tracking rows of the trial
    startVideoIndex,      \* Trial.startVideoIndex
    endVideoIndex,        \* Trial.endVideoIndex
    leverPress,           \* Trial.leverPress, rows [time, videoIndex]
    nLeverPresses,        \* Trial.nLeverPresses
    stateDF,              \* Trial.stateDF, a row per frame label
    journeyTransitionIndices, \* Trial.journeyTransitionIndices
    journeyStartEndIndices,   \* Trial.journeyStartEndIndices, [none, rows]
    journeyList,          \* Trial.journeyList
    nJourneys,            \* Trial.nJourneys
    pathD,                \* Trial.pathD
    light,                \* Trial.light: "light" or "dark" ("unset" before it is set)
    tpc,                  \* position in extractTrialFeatures, or the error raised
    \* ---- the Trial objects of Session.trialList ----
    trialList,            \* a record per Trial object
    \* ---- one NavPath object under construction ----
    pPose,                \* NavPath.pPose: [none, nCols, rows]
    targetPose,           \* whether a targetPose was given
    statistics,           \* the statistics attributes of the NavPath
    npc,                  \* position in NavPath.__init__, or the error raised
    \* ---- the angles around the target of a NavPath, in degrees ----
    animalPoints,         \* the positions relative to the target: [r, angle]
    cumSumDiffAngleAroundTarget,      \* NavPath.cumSumDiffAngleAroundTarget
    endCumSumDiffAngleAroundTarget,   \* NavPath.endCumSumDiffAngleAroundTarget
    rangeCumSumDiffAngleAroundTarget, \* NavPath.rangeCumSumDiffAngleAroundTarget
    apc,                  \* position in the part "angle around target"
    \* ---- Session.fixVideoLog ----
    vlog,                 \* vl, the video log: rows [frame_number, time], row k has index k - 1
    addCount,             \* the local addCount
    fpc,                  \* position in fixVideoLog, or the error raised
    \* ---- a TrialElectro ----
    mousePose,            \* TrialElectro.mousePose: the positions of the trial
    positionZones,        \* TrialElectro.positionZones
    validElectro,         \* TrialElectro.valid
    epc                   \* position in TrialElectro.extractTrialFeatures

LeverVars == <<isAtLever, leverZoneMaxDistance, points, method, res, lpc, lret>>
SessionVars == <<log, doorEvents, probIndices, trials, spc>>
TrialInputVars == <<mLPosi, videoLog>>
TrialVars == <<startTime, endTime, valid, back, trialMLPx, startVideoIndex,
               endVideoIndex, leverPress, nLeverPresses, stateDF,
               journeyTransitionIndices, journeyStartEndIndices, journeyList,
               nJourneys, pathD, light, tpc>>
TrialListVars == <<trialList>>
NavPathVars == <<pPose, targetPose, statistics, npc>>
AroundTargetVars == <<animalPoints, cumSumDiffAngleAroundTarget,
                      endCumSumDiffAngleAroundTarget,
                      rangeCumSumDiffAngleAroundTarget, apc>>
VideoLogVars == <<vlog, addCount, fpc>>
TrialElectroVars == <<mousePose, positionZones, validElectro, epc>>
vars == <<LeverVars, SessionVars, TrialInputVars, TrialVars, TrialListVars, NavPathVars,
    AroundTargetVars,
    VideoLogVars, TrialElectroVars>>
NotLever == <<SessionVars, TrialInputVars, TrialVars, TrialListVars, NavPathVars,
    AroundTargetVars,
    VideoLogVars, TrialElectroVars>>
NotSession == <<LeverVars, TrialInputVars, TrialVars, TrialListVars, NavPathVars,
    AroundTargetVars,
    VideoLogVars, TrialElectroVars>>
NotTrial == <<LeverVars, SessionVars, TrialInputVars, TrialListVars, NavPathVars,
    AroundTargetVars,
    VideoLogVars, TrialElectroVars>>
NotTrialList == <<LeverVars, SessionVars, TrialInputVars, TrialVars, NavPathVars,
    AroundTargetVars,
    VideoLogVars, TrialElectroVars>>
NotAroundTarget == <<LeverVars, SessionVars, TrialInputVars, TrialVars, TrialListVars,
    NavPathVars,
    VideoLogVars, TrialElectroVars>>
NotVideoLog == <<LeverVars, SessionVars, TrialInputVars, TrialVars, TrialListVars,
    NavPathVars, AroundTargetVars, TrialElectroVars>>
NotTrialElectro == <<LeverVars, SessionVars, TrialInputVars, TrialVars, TrialListVars,
    NavPathVars, AroundTargetVars, VideoLogVars>>
NotNavPath == <<LeverVars, SessionVars, TrialInputVars, TrialVars, TrialListVars,
    AroundTargetVars,
    VideoLogVars, TrialElectroVars>>

NaN == 0 - 1000000
IsNaN(v) == v = NaN
\* Python's None: no numpy float array holds it
None == 0 - 2000000
IsNone(v) == v = None

Abs(n) == IF n < 0 THEN -n ELSE n


\* The elements of s that satisfy Test, in order (a boolean-mask selection).
SelectIdx(s, Test(_)) ==
    LET F[k \in 0..Len(s)] ==
            IF k = 0 THEN <<>>
            ELSE IF Test(k) THEN Append(F[k-1], s[k]) ELSE F[k-1]
    IN F[Len(s)]

(***************************************************************************)
(* Lever                                                                   *)
(***************************************************************************)

\* Lever.__init__: the three scaling factors, in per cent.
scalingFactorEnterZone == 165
scalingFactorExitZone == 200
scalingFactorSideWalls == 80

\* The reference points handed to calculatePose: lever press, posterior left
\* and posterior right corners (a lever 10 cm long on a base of 6 cm, its
\* back on the arena centre).
LeverLP == <<0, 200>>
LeverPL == <<-60, 0>>
LeverPR == <<60, 0>>

VAdd(a, b) == <<a[1] + b[1], a[2] + b[2]>>
VSub(a, b) == <<a[1] - b[1], a[2] - b[2]>>
VDot(a, b) == a[1] * b[1] + a[2] * b[2]
\* v * num / den, for the exact cases the model uses
VScale(v, num, den) == <<(v[1] * num) \div den, (v[2] * num) \div den>>

MaxRoot == 2000
ISqrt(n) == CHOOSE k \in 0..MaxRoot : k * k <= n /\ (k + 1) * (k + 1) > n

\* Lever.rotateVector(v, 90): cos = 0, sin = 1.
rotateVector90(v) == <<-v[2], v[1]>>

\* Lever.calculatePose: the three outlines, each a sequence of six points.
calculatePose(lp, pl, pr) ==
    LET vPosterior == VSub(pl, pr)
        vPosteriorLength == ISqrt(VDot(vPosterior, vPosterior))
        midPosterior == VAdd(pr, VScale(vPosterior, 1, 2))
        vLong == VSub(lp, midPosterior)
        vLongLength == ISqrt(VDot(vLong, vLong))
        \* uBase = rotateVector(vLong / vLongLength, 90); vBase = uBase * vPosteriorLength
        vBase == VScale(rotateVector90(vLong), vPosteriorLength, vLongLength)
        p0 == <<0, 0>>
        p1 == VAdd(p0, VScale(vBase, 1, 2))
        p2 == VAdd(p1, VScale(vLong, scalingFactorSideWalls, 100))
        p3 == VAdd(p0, vLong)
        p5 == VSub(p0, VScale(vBase, 1, 2))
        p4 == VAdd(p5, VScale(vLong, scalingFactorSideWalls, 100))
        pts == <<p0, p1, p2, p3, p4, p5>>
        shift == VSub(lp, p3)
        Zone(f) == [k \in 1..6 |->
                      VSub(VAdd(VScale(pts[k], f, 100), shift),
                           VScale(vLong, f - 100, 200))]
    IN [points |-> [k \in 1..6 |-> VAdd(pts[k], shift)],
        enterZonePoints |-> Zone(scalingFactorEnterZone),
        exitZonePoints |-> Zone(scalingFactorExitZone)]

\* the lever with the enter and the exit outline exchanged
leverCmZonesExchanged ==
    LET pose == calculatePose(LeverLP, LeverPL, LeverPR)
    IN [points |-> pose.points,
        enterZonePoints |-> pose.exitZonePoints,
        exitZonePoints |-> pose.enterZonePoints]

leverCm == calculatePose(LeverLP, LeverPL, LeverPR)

\* matplotlib.path.Path(poly).contains_points([p]) for a closed polygon: the
\* crossing-number test; a point with a NaN coordinate is in no path.
contains_points(poly, p) ==
    IF IsNaN(p[1]) \/ IsNaN(p[2]) THEN FALSE
    ELSE LET n == Len(poly)
             tx == p[1]
             ty == p[2]
             Crosses(k) ==
                 LET a == poly[k]
                     b == poly[(k % n) + 1]
                     yflag0 == a[2] >= ty
                     yflag1 == b[2] >= ty
                 IN  /\ yflag0 # yflag1
                     /\ (((b[2] - ty) * (a[1] - b[1])
                            >= (b[1] - tx) * (a[2] - b[2])) = yflag1)
         IN Cardinality({k \in 1..n : Crosses(k)}) % 2 = 1

\* zonesIteration with one outline for entering and leaving: the exit test
\* uses the enter outline.
zonesIterationOneZone(at, pts, k) ==
    LET v == contains_points(leverCm.enterZonePoints, pts[k])
    IN [isAtLever |-> v, res |-> v]

\* One iteration of the loop of Lever.isAt, method "zones": the state the
\* iteration leaves in isAtLever and the value it stores in res[i].
zonesIteration(at, pts, k) ==
    IF IsNone(pts[1][1])
    THEN [isAtLever |-> at, res |-> at]
    ELSE IF at
         THEN LET v == contains_points(leverCm.exitZonePoints, pts[k])
              IN [isAtLever |-> IF v = FALSE THEN FALSE ELSE at, res |-> v]
         ELSE LET v == contains_points(leverCm.enterZonePoints, pts[k])
              IN [isAtLever |-> IF v = TRUE THEN TRUE ELSE at, res |-> v]

\* The squared distances of pointDistanceFromSegment are compared with the
\* threshold without the square root: whether the distance of P from the
\* segment S0-S1 is below thr (thr >= 0).
pointDistanceFromSegmentBelow(S0, S1, P, thr) ==
    LET S == VSub(S1, S0)
        Q == VSub(P, S0)
        num == VDot(S, Q)          \* C = num / den
        den == VDot(S, S)
        cross == S[1] * Q[2] - S[2] * Q[1]
    IN IF num < 0 THEN VDot(Q, Q) < thr * thr
       ELSE IF num > den THEN VDot(VSub(Q, S), VSub(Q, S)) < thr * thr
       \* |Q - S*C|^2 = cross^2 / den
       ELSE cross * cross < thr * thr * den

\* Lever.leverDistance(P) < thr: the minimum over the segments
\* points[i], points[i+1] for i in range(points.shape[0]-1).
leverDistanceBelow(P, thr) ==
    IF IsNaN(P[1]) \/ IsNaN(P[2]) THEN FALSE
    ELSE \E k \in 1..(Len(leverCm.points) - 1) :
            pointDistanceFromSegmentBelow(leverCm.points[k], leverCm.points[k+1], P, thr)

\* One iteration of the loop of Lever.isAt, method "maxDistance".
maxDistanceIteration(at, pts, k, maxDistance) ==
    IF IsNaN(pts[k][1]) \/ IsNaN(pts[k][2])
    THEN [isAtLever |-> at, res |-> at]
    ELSE LET v == leverDistanceBelow(pts[k], maxDistance)
         IN [isAtLever |-> v, res |-> v]

\* The whole loop of Lever.isAt(points) with method "zones", from the state
\* at: the state it leaves and the array it returns.
RECURSIVE isAtZonesFrom(_, _, _, _)
isAtZonesFrom(at, pts, k, acc) ==
    IF k > Len(pts) THEN [isAtLever |-> at, res |-> acc]
    ELSE LET it == zonesIteration(at, pts, k)
         IN isAtZonesFrom(it.isAtLever, pts, k + 1, Append(acc, it.res))

isAtZones(at, pts) == isAtZonesFrom(at, pts, 1, <<>>)

\* ---- inputs of the Lever model ----
PLever == <<0, 100>>      \* on the lever: inside the enter and the exit outline
PBetween == <<110, 100>>  \* beside the lever: inside the exit outline only
PCenter == <<0, 500>>     \* 25 cm from the arena centre, outside both outlines
PMissing == <<NaN, NaN>>
PEdge == <<90, 100>>      \* inside the enter outline, by its side wall
PBase == <<30, -35>>      \* 1.75 cm behind the base of the lever, from p5 to p0
LeverSamplePoints == {PLever, PBetween, PCenter, PMissing, PEdge, PBase}
Methods == {"zones", "maxDistance", "maxdistance"}
MaxPoints == 3
\* the thresholds a caller configures: 2 cm
MaxDistances == {40}

SeqsUpTo(S, n) == UNION {[1..m -> S] : m \in 0..n}

\* Lever.__init__
LeverInit ==
    /\ isAtLever = FALSE
    /\ leverZoneMaxDistance = NaN
    /\ points = <<>>
    /\ method = "zones"
    /\ res = <<>>
    /\ lpc = "idle"
    /\ lret = "none"

\* a caller sets lever.leverZoneMaxDistance
SetLeverZoneMaxDistance ==
    /\ lpc = "idle"
    /\ \E d \in MaxDistances : leverZoneMaxDistance' = d
    /\ UNCHANGED <<isAtLever, points, method, res, lpc, lret>>
    /\ UNCHANGED NotLever

\* IsAtCall taking every method name other than "maxDistance" for "zones"
IsAtCallZonesByDefault ==
    /\ lpc = "idle"
    /\ \E pts \in SeqsUpTo(LeverSamplePoints, MaxPoints), m \in Methods :
         /\ points' = pts
         /\ method' = m
         /\ res' = <<>>
         /\ IF m = "maxDistance"
            THEN IF IsNaN(leverZoneMaxDistance)
                 THEN lpc' = "idle" /\ lret' = "ValueError"
                 ELSE lpc' = "maxDistance" /\ lret' = "none"
            ELSE lpc' = "zones" /\ lret' = "none"
    /\ UNCHANGED <<isAtLever, leverZoneMaxDistance>>
    /\ UNCHANGED NotLever

\* IsAtCall starting every call from the state not-at-lever
IsAtCallFromNotAtLever ==
    /\ lpc = "idle"
    /\ \E pts \in SeqsUpTo(LeverSamplePoints, MaxPoints), m \in Methods :
         /\ points' = pts
         /\ method' = m
         /\ res' = <<>>
         /\ IF m = "zones" THEN lpc' = "zones" /\ lret' = "none"
            ELSE IF m = "maxDistance"
                 THEN IF IsNaN(leverZoneMaxDistance)
                      THEN lpc' = "idle" /\ lret' = "ValueError"
                      ELSE lpc' = "maxDistance" /\ lret' = "none"
                 ELSE lpc' = "idle" /\ lret' = "ValueError"
    /\ isAtLever' = FALSE
    /\ UNCHANGED leverZoneMaxDistance
    /\ UNCHANGED NotLever

\* Lever.isAt is entered: res is allocated and the method is dispatched.
IsAtCall ==
    /\ lpc = "idle"
    /\ \E pts \in SeqsUpTo(LeverSamplePoints, MaxPoints), m \in Methods :
         /\ points' = pts
         /\ method' = m
         /\ res' = <<>>
         /\ IF m = "zones" THEN lpc' = "zones" /\ lret' = "none"
            ELSE IF m = "maxDistance"
                 THEN IF IsNaN(leverZoneMaxDistance)
                      THEN lpc' = "idle" /\ lret' = "ValueError"
                      ELSE lpc' = "maxDistance" /\ lret' = "none"
                 ELSE lpc' = "idle" /\ lret' = "ValueError"
    /\ UNCHANGED <<isAtLever, leverZoneMaxDistance>>
    /\ UNCHANGED NotLever

IsAtZonesIteration ==
    /\ lpc = "zones"
    /\ Len(res) < Len(points)
    /\ LET it == zonesIteration(isAtLever, points, Len(res) + 1)
       IN /\ isAtLever' = it.isAtLever
          /\ res' = Append(res, it.res)
    /\ UNCHANGED <<leverZoneMaxDistance, points, method, lpc, lret>>
    /\ UNCHANGED NotLever

IsAtMaxDistanceIteration ==
    /\ lpc = "maxDistance"
    /\ Len(res) < Len(points)
    /\ LET it == maxDistanceIteration(isAtLever, points, Len(res) + 1,
                                      leverZoneMaxDistance)
       IN /\ isAtLever' = it.isAtLever
          /\ res' = Append(res, it.res)
    /\ UNCHANGED <<leverZoneMaxDistance, points, method, lpc, lret>>
    /\ UNCHANGED NotLever

IsAtReturn ==
    /\ lpc \in {"zones", "maxDistance"}
    /\ Len(res) = Len(points)
    /\ lpc' = "idle"
    /\ lret' = "returned"
    /\ UNCHANGED <<isAtLever, leverZoneMaxDistance, points, method, res>>
    /\ UNCHANGED NotLever

LeverNext ==
    \/ SetLeverZoneMaxDistance
    \/ IsAtCall
    \/ IsAtZonesIteration
    \/ IsAtMaxDistanceIteration
    \/ IsAtReturn

(***************************************************************************)
(* Session.segmentTrialsFromLog                                            *)
(*                                                                         *)
(* log holds the rows of the log file in file order, each with its event,  *)
(* its param (for a door row 0 = the door opens, 1 = the door closes) and  *)
(* its time in ticks of 0.05 s counted from the start event.  A row of     *)
(* doorEvents keeps its index label.                                       *)
(***************************************************************************)

\* doorEvents = self.log[(event == "door") & (time - start > 0)]
doorEventsAfterStart(lg) ==
    SelectSeq([k \in 1..Len(lg) |->
                  [index |-> k, param |-> lg[k].param, time |-> lg[k].time]],
              LAMBDA e : lg[e.index].event = "door" /\ e.time > 0)

\* doorEvents.drop(label): the rows without that index label(s)
dropIndex(ev, labels) == SelectSeq(ev, LAMBDA e : e.index \notin labels)

\* doorEvents = doorEvents.drop(doorEvents.index[0])
dropLeadingClose(ev) == dropIndex(ev, {ev[1].index})

\* if doorEvents.param.iloc[-1] == 0: doorEvents = doorEvents[:-1]
dropTrailingOpen(ev) ==
    IF ev[Len(ev)].param = 0 THEN SubSeq(ev, 1, Len(ev) - 1) ELSE ev

\* doorEvents.index[doorEvents.param.diff() == 0]
diffDoorZero(ev) ==
    LET F[k \in 1..Len(ev)] ==
            IF k = 1 THEN <<>>
            ELSE IF ev[k].param - ev[k-1].param = 0
                 THEN Append(F[k-1], ev[k].index) ELSE F[k-1]
    IN IF ev = <<>> THEN <<>> ELSE F[Len(ev)]

\* the row of doorEvents with an index label (the label is present)
rowAt(ev, label) == CHOOSE e \in {ev[k] : k \in 1..Len(ev)} : e.index = label

\* repairIteration dropping the later row of every repeated pair
repairIterationDropLater(ev, probIndex) == dropIndex(ev, {probIndex})

\* The body of the loop over the problematic indices.
repairIteration(ev, probIndex) ==
    IF rowAt(ev, probIndex).param = 0
    THEN \* doorEvents[doorEvents.time < doorEvents.time.loc[probIndex]].tail(1).index
         LET before == SelectSeq(ev, LAMBDA e : e.time < rowAt(ev, probIndex).time)
             indexBefore == IF before = <<>> THEN {}
                            ELSE {before[Len(before)].index}
         IN dropIndex(ev, indexBefore)
    ELSE dropIndex(ev, {probIndex})

doorOpens(ev) == SelectSeq(ev, LAMBDA e : e.param = 0)
doorCloses(ev) == SelectSeq(ev, LAMBDA e : e.param = 1)

\* pd.DataFrame(data = myDict) raises ValueError for columns of different
\* lengths: startTime has a row per open, endTime a row per close
createTrialsRaises(ev) == Len(doorOpens(ev)) # Len(doorCloses(ev))

\* the trials data frame
createTrials(ev) ==
    [k \in 1..Len(doorOpens(ev)) |->
        [trialNo |-> k, startTime |-> doorOpens(ev)[k].time,
         endTime |-> doorCloses(ev)[k].time]]

\* ---- the whole function, as the composition of its steps ----
RECURSIVE dropLeadingCloses(_)
dropLeadingCloses(ev) ==
    IF ev # <<>> /\ ev[1].param = 1 THEN dropLeadingCloses(dropLeadingClose(ev))
    ELSE ev

RECURSIVE repairRepeats(_, _)
repairRepeats(ev, probs) ==
    IF probs = <<>> THEN ev
    ELSE repairRepeats(repairIteration(ev, Head(probs)), Tail(probs))

segmentTrialsFromLog(lg) ==
    LET ev1 == dropLeadingCloses(doorEventsAfterStart(lg))
    IN IF ev1 = <<>> THEN [doorEvents |-> ev1, raised |-> "IndexError", trials |-> <<>>]
       ELSE LET ev2 == dropTrailingOpen(ev1)
                ev3 == repairRepeats(ev2, diffDoorZero(ev2))
            IN IF createTrialsRaises(ev3)
               THEN [doorEvents |-> ev3, raised |-> "ValueError", trials |-> <<>>]
               ELSE [doorEvents |-> ev3, raised |-> "none", trials |-> createTrials(ev3)]

\* ---- inputs ----
MaxEvents == 5
\* the time from one door row to the next, in ticks
TimeSteps == {0, 2}

RECURSIVE CumulativeTimes(_, _)
CumulativeTimes(steps, t0) ==
    IF steps = <<>> THEN <<>>
    ELSE <<t0 + Head(steps)>> \o CumulativeTimes(Tail(steps), t0 + Head(steps))

DoorLogs ==
    {[k \in 1..Len(ps) |->
          [event |-> "door", param |-> ps[k], time |-> CumulativeTimes(ds, 0)[k]]] :
        <<ps, ds>> \in UNION {[1..n -> {0, 1}] \X [1..n -> TimeSteps] : n \in 0..MaxEvents}}

SessionInit ==
    /\ log \in DoorLogs
    /\ doorEvents = <<>>
    /\ probIndices = <<>>
    /\ trials = <<>>
    /\ spc = "start"

SelectDoorEvents ==
    /\ spc = "start"
    /\ doorEvents' = doorEventsAfterStart(log)
    /\ spc' = "leading"
    /\ UNCHANGED <<log, probIndices, trials>>
    /\ UNCHANGED NotSession

\* doorEvents.param.iloc[0] (or iloc[-1]) of an empty frame
SegmentIndexError ==
    /\ spc = "leading"
    /\ doorEvents = <<>>
    /\ spc' = "IndexError"
    /\ UNCHANGED <<log, doorEvents, probIndices, trials>>
    /\ UNCHANGED NotSession

DropLeadingClose ==
    /\ spc = "leading"
    /\ doorEvents # <<>>
    /\ doorEvents[1].param = 1
    /\ doorEvents' = dropLeadingClose(doorEvents)
    /\ UNCHANGED <<log, probIndices, trials, spc>>
    /\ UNCHANGED NotSession

\* the while loop ends; the trailing open is dropped and diffDoor computed
DropTrailingOpen ==
    /\ spc = "leading"
    /\ doorEvents # <<>>
    /\ doorEvents[1].param # 1
    /\ doorEvents' = dropTrailingOpen(doorEvents)
    /\ probIndices' = diffDoorZero(doorEvents')
    /\ spc' = "repair"
    /\ UNCHANGED <<log, trials>>
    /\ UNCHANGED NotSession

RepairIteration ==
    /\ spc = "repair"
    /\ probIndices # <<>>
    /\ doorEvents' = repairIteration(doorEvents, Head(probIndices))
    /\ probIndices' = Tail(probIndices)
    /\ UNCHANGED <<log, trials, spc>>
    /\ UNCHANGED NotSession

CreateTrials ==
    /\ spc = "repair"
    /\ probIndices = <<>>
    /\ IF createTrialsRaises(doorEvents)
       THEN spc' = "ValueError" /\ UNCHANGED trials
       ELSE spc' = "done" /\ trials' = createTrials(doorEvents)
    /\ UNCHANGED <<log, doorEvents, probIndices>>
    /\ UNCHANGED NotSession

SessionNext ==
    \/ SelectDoorEvents
    \/ SegmentIndexError
    \/ DropLeadingClose
    \/ DropTrailingOpen
    \/ RepairIteration
    \/ CreateTrials

(***************************************************************************)
(* Trial.extractTrialFeatures                                              *)
(*                                                                         *)
(* The arena is centred on the origin (aCoordCm = [0, 0, arenaRadiusCm]).  *)
(* The lever of the trial is leverCm above.  A table of the trial is a     *)
(* function or a sequence over the frame labels of the trial.              *)
(***************************************************************************)

\* arenaRadiusCm = 40 and arenaRadiusProportionToPeri = 0.925 (per mille)
arenaRadiusCm == 800
arenaRadiusProportionToPeri == 925
radiusPeripheryCm == (arenaRadiusCm * arenaRadiusProportionToPeri) \div 1000

\* bCoordCm[0] and bCoordCm[2]: two opposite corners of the bridge
bCoordCm0 == <<-100, 840>>
bCoordCm2 == <<100, 1240>>

\* the fewest detections of the mouse a valid trial has
MinValidDetections == 20
\* the largest interval between two frames of a valid trial: 0.25 s
MaxInterFrameIntervals == 5
\* the start-time repair: maxBackward = -2.0 s and step = 0.1 s
maxBackward == -40
step == 2

\* mLPosi[(videoLog.time > startTime) & (videoLog.time < endTime)].index
trialRows(vl, s, e) ==
    SelectIdx([k \in 1..Len(vl) |-> k], LAMBDA k : vl[k] > s /\ vl[k] < e)

\* np.sum(~np.isnan(self.trialMLPx.mouseX))
validMouse(posi, rows) ==
    Cardinality({k \in 1..Len(rows) : ~IsNaN(posi[rows[k]][1])})

\* the bridge test on one position; a NaN compares false
isBridge(p) ==
    /\ ~IsNaN(p[1])
    /\ ~IsNaN(p[2])
    /\ p[1] > bCoordCm0[1]
    /\ p[1] < bCoordCm2[1]
    /\ p[2] > bCoordCm0[2]
    /\ p[2] < bCoordCm2[2]

\* np.isnan(mouseX)
isHome(p) == IsNaN(p[1])

\* distanceFromArenaCenter < r, for a radius r >= 0; a NaN compares false
distanceFromArenaCenterBelow(p, r) ==
    /\ ~IsNaN(p[1])
    /\ ~IsNaN(p[2])
    /\ p[1] * p[1] + p[2] * p[2] < r * r

\* distanceFromArenaCenter > r
distanceFromArenaCenterAbove(p, r) ==
    /\ ~IsNaN(p[1])
    /\ ~IsNaN(p[2])
    /\ p[1] * p[1] + p[2] * p[2] > r * r

\* self.trialVideoLog.time.diff().max() > 0.25; the maximum of no interval
\* is NaN and compares false
maxInterFrameIntervalsAbove(vl, rows, limit) ==
    \E k \in 2..Len(rows) : vl[rows[k]] - vl[rows[k-1]] > limit

\* Trial.videoIndexFromTimeStamp: the frame of the trial nearest in time,
\* the first of them when several are as near (np.argmin)
videoIndexFromTimeStamp(vl, rows, timeStamp) ==
    LET d(k) == Abs(vl[rows[k]] - timeStamp)
        best == CHOOSE k \in 1..Len(rows) :
                    /\ \A m \in 1..Len(rows) : d(k) <= d(m)
                    /\ \A m \in 1..(k - 1) : d(m) > d(k)
    IN rows[best]

\* the leverPress data frame: the lever presses of the log within the trial
leverPressRows(lg, vl, rows, s, e) ==
    LET lever == SelectSeq(lg, LAMBDA r : r.event \in {"lever_press", "leverPress"})
        inTrial == SelectSeq(lever, LAMBDA r : r.time > s /\ r.time < e)
    IN [k \in 1..Len(inTrial) |->
           [time |-> inTrial[k].time,
            videoIndex |-> videoIndexFromTimeStamp(vl, rows, inTrial[k].time)]]

\* DataFrame.idxmax(1) over the columns in their order: the first column
\* that is true, the first column when none is
idxmax(row) ==
    IF row.gap THEN "gap"
    ELSE IF row.lever THEN "lever"
    ELSE IF row.arenaCenter THEN "arenaCenter"
    ELSE IF row.arena THEN "arena"
    ELSE IF row.bridge THEN "bridge"
    ELSE IF row.homeBase THEN "homeBase"
    ELSE "gap"

\* one row of stateDF from the five tests of a frame
stateRow(atLever, p) ==
    LET lever == atLever
        arenaCenter == distanceFromArenaCenterBelow(p, radiusPeripheryCm)
        arena == distanceFromArenaCenterBelow(p, arenaRadiusCm)
        bridge == isBridge(p)
        \* homeBase, reset where lever is true
        homeBase == isHome(p) /\ ~lever
        gap == ~(lever \/ arenaCenter \/ arena \/ bridge \/ homeBase)
    IN [gap |-> gap, lever |-> lever, arenaCenter |-> arenaCenter,
        arena |-> arena, bridge |-> bridge, homeBase |-> homeBase,
        loca |-> idxmax([gap |-> gap, lever |-> lever, arenaCenter |-> arenaCenter,
                         arena |-> arena, bridge |-> bridge, homeBase |-> homeBase])]

\* stateDF: a row per frame label of the trial; the lever column is the
\* result of leverCm.isAt(mousePoints), a new Lever object
sectioning(posi, rows) ==
    LET mousePoints == [k \in 1..Len(rows) |-> posi[rows[k]]]
        lever == isAtZones(FALSE, mousePoints).res
    IN [i \in {rows[k] : k \in 1..Len(rows)} |->
           LET k == CHOOSE m \in 1..Len(rows) : rows[m] = i
           IN stateRow(lever[k], posi[i])]

\* the frame labels of a table between two labels, both included
\* (DataFrame.loc[a:b])
locSlice(sdf, a, b) == {i \in DOMAIN sdf : i >= a /\ i <= b}

\* zoneChecksFail without the check of the label at the first press
zoneChecksFailPressAnywhere(sdf, presses, first, last) ==
    LET n == Len(presses)
        press == presses[1].videoIndex
    IN \/ {i \in DOMAIN sdf : sdf[i].loca = "lever"} = {}
       \/ {i \in DOMAIN sdf : sdf[i].arena} = {}
       \/ n > 0 /\ \A i \in locSlice(sdf, first, press) : sdf[i].loca # "arenaCenter"
       \/ n > 0 /\ {i \in locSlice(sdf, press, last) :
                        sdf[i].loca \in {"arena", "arenaCenter"}} = {}

\* the five checks on the labels; TRUE when one of them fails
zoneChecksFail(sdf, presses, first, last) ==
    LET n == Len(presses)
        press == presses[1].videoIndex
    IN \/ {i \in DOMAIN sdf : sdf[i].loca = "lever"} = {}
       \/ n > 0 /\ sdf[press].loca # "lever"
       \/ {i \in DOMAIN sdf : sdf[i].arena} = {}
       \/ n > 0 /\ \A i \in locSlice(sdf, first, press) : sdf[i].loca # "arenaCenter"
       \/ n > 0 /\ {i \in locSlice(sdf, press, last) :
                        sdf[i].loca \in {"arena", "arenaCenter"}} = {}

SetMin(S) == CHOOSE x \in S : \A y \in S : x <= y
SetMax(S) == CHOOSE x \in S : \A y \in S : x >= y

\* the elements of a set of labels in increasing order (an Index)
RECURSIVE SortedSeq(_)
SortedSeq(S) ==
    IF S = {} THEN <<>> ELSE <<SetMin(S)>> \o SortedSeq(S \ {SetMin(S)})

\* np.insert(a, 0, v)
InsertFirst(a, v) == <<v>> \o a

\* journeyTransitions looking for the transitions among all the rows of the
\* trial, not among its bridge and arenaCenter rows only
journeyTransitionsAllRows(sdf) ==
    LET bac == SortedSeq(DOMAIN sdf)
        dfStart(k) == IF k = 1 THEN "nan" ELSE sdf[bac[k-1]].loca
        dfEnd(k) == sdf[bac[k]].loca
        K == 1..Len(bac)
        trans == SelectIdx([k \in K |-> bac[k] - 1],
                           LAMBDA k : dfStart(k) = "bridge" /\ dfEnd(k) = "arenaCenter")
        ends == {k \in K : dfEnd(k) = "arenaCenter"}
        starts == {k \in K : dfStart(k) = "bridge"}
    IN IF ends # {}
       THEN IF starts = {}
            THEN InsertFirst(trans, bac[SetMin(ends)] - 1)
            ELSE LET firstBridgeIndex == bac[SetMin(starts)]
                     firstArenaCenterIndex == bac[SetMin(ends)]
                 IN IF firstArenaCenterIndex < firstBridgeIndex
                    THEN InsertFirst(trans, firstArenaCenterIndex - 1)
                    ELSE trans
       ELSE trans

\* journeyTransitionIndices: the label before every arenaCenter row that
\* follows a bridge row among the bridge and arenaCenter rows, and the label
\* before the first arenaCenter row when no bridge row comes before it
journeyTransitions(sdf) ==
    LET bac == SortedSeq({i \in DOMAIN sdf : sdf[i].loca \in {"bridge", "arenaCenter"}})
        dfStart(k) == IF k = 1 THEN "nan" ELSE sdf[bac[k-1]].loca
        dfEnd(k) == sdf[bac[k]].loca
        K == 1..Len(bac)
        trans == SelectIdx([k \in K |-> bac[k] - 1],
                           LAMBDA k : dfStart(k) = "bridge" /\ dfEnd(k) = "arenaCenter")
        ends == {k \in K : dfEnd(k) = "arenaCenter"}
        starts == {k \in K : dfStart(k) = "bridge"}
    IN IF ends # {}
       THEN IF starts = {}
            THEN InsertFirst(trans, bac[SetMin(ends)] - 1)
            ELSE LET firstBridgeIndex == bac[SetMin(starts)]
                     firstArenaCenterIndex == bac[SetMin(ends)]
                 IN IF firstArenaCenterIndex < firstBridgeIndex
                    THEN InsertFirst(trans, firstArenaCenterIndex - 1)
                    ELSE trans
       ELSE trans

\* the journeyStartEndIndices data frame of a non-empty list of transitions
journeyStartEnd(jti, last) ==
    LET jt == Append(jti, last)
    IN [k \in 1..Len(jti) |-> [start |-> jt[k], end |-> jt[k+1] - 1]]

\* NavPath.__init__ as far as the shape tests go: what constructing a
\* NavPath from a pose of nRows rows and nCols columns gives
NavPath(name, nRows, nCols) ==
    IF nCols # 7 /\ nCols # 8
    THEN \* self.pPose = None, and then self.pPose.shape[0]
         [name |-> name, raised |-> "AttributeError", defined |-> FALSE, nRows |-> nRows]
    ELSE IF nRows < 2
         THEN [name |-> name, raised |-> "none", defined |-> FALSE, nRows |-> nRows]
         ELSE [name |-> name, raised |-> "none", defined |-> TRUE, nRows |-> nRows]

PathNames == {"all", "searchTotal", "searchArena", "searchArenaNoLever",
              "homingTotal", "homingPeri", "homingPeriNoLever"}

\* Journey.poseFromTrialData: the number of rows of the pose between two
\* labels, among the rows of the journey
poseFromTrialData(rowsJ, a, b) == Cardinality({i \in rowsJ : i >= a /\ i <= b})

\* Journey.__init__; raised is the exception it ends with, if any
Journey(journeyNo, startIndex, endIndex, presses, sdf, posi) ==
    LET rowsJ == locSlice(sdf, startIndex, endIndex)
        pressJ == SelectSeq(presses, LAMBDA r : r.videoIndex > startIndex
                                                  /\ r.videoIndex < endIndex)
        atLever == \E i \in rowsJ : sdf[i].loca = "lever"
        leverPressed == Len(pressJ) > 0
        base == [journeyNo |-> journeyNo, startIndex |-> startIndex,
                 endIndex |-> endIndex, atLever |-> atLever,
                 nLeverPresses |-> Len(pressJ), leverPressed |-> leverPressed]
        allPose == poseFromTrialData(rowsJ, startIndex, endIndex)
        failed == [raised |-> "IndexError", base |-> base, index |-> <<>>, pathD |-> <<>>]
    IN IF leverPressed
       THEN LET press == pressJ[1].videoIndex
                out == {i \in press..(endIndex - 1) :
                           distanceFromArenaCenterAbove(posi[i], radiusPeripheryCm)}
                peri == IF out = {} THEN startIndex ELSE SetMin(out)
                arenaIndex == {i \in rowsJ : sdf[i].arena}
                bridgeIndex == {i \in rowsJ : sdf[i].loca = "bridge"}
                bridgeBefore == {i \in bridgeIndex : i < press}
                lastBridgeIndexBeforePress ==
                    IF bridgeBefore = {} THEN startIndex ELSE SetMax(bridgeBefore)
                leverIndex == {i \in rowsJ : sdf[i].loca = "lever"}
                leverBefore == {i \in leverIndex : i > lastBridgeIndexBeforePress /\ i < press}
                bridgeAfter == {i \in bridgeIndex : i > press}
                firstBridgeIndexAfterPress ==
                    IF bridgeAfter = {} THEN endIndex ELSE SetMin(bridgeAfter)
                notAtLeverAfter == {i \in rowsJ : ~sdf[i].lever /\ i > press}
            IN IF arenaIndex = {} \/ (leverBefore = {} /\ leverIndex = {})
                  \/ notAtLeverAfter = {}
               THEN failed
               ELSE LET ix == [peripheryAfterFirstLeverPressVideoIndex |-> peri,
                               searchTotalStartIndex |-> SetMin(arenaIndex),
                               searchTotalEndIndex |-> press,
                               searchArenaStartIndex |-> lastBridgeIndexBeforePress,
                               searchArenaEndIndex |-> press,
                               searchArenaNoLeverStartIndex |-> lastBridgeIndexBeforePress,
                               searchArenaNoLeverEndIndex |->
                                   IF leverBefore = {} THEN SetMin(leverIndex)
                                   ELSE SetMin(leverBefore),
                               homingTotalStartIndex |-> press,
                               homingTotalEndIndex |-> firstBridgeIndexAfterPress,
                               homingPeriStartIndex |-> press,
                               homingPeriEndIndex |-> peri,
                               homingPeriNoLeverStartIndex |-> SetMin(notAtLeverAfter),
                               homingPeriNoLeverEndIndex |-> peri]
                        P(name, a, b) == NavPath(name, poseFromTrialData(rowsJ, a, b), 7)
                    IN [raised |-> "none", base |-> base, index |-> <<ix>>,
                        pathD |->
                          [n \in PathNames |->
                             CASE n = "all" -> NavPath(n, allPose, 7)
                               [] n = "searchTotal" ->
                                    P(n, ix.searchTotalStartIndex, ix.searchTotalEndIndex)
                               [] n = "searchArena" ->
                                    P(n, ix.searchArenaStartIndex, ix.searchArenaEndIndex)
                               [] n = "searchArenaNoLever" ->
                                    P(n, ix.searchArenaNoLeverStartIndex,
                                         ix.searchArenaNoLeverEndIndex)
                               [] n = "homingTotal" ->
                                    P(n, ix.homingTotalStartIndex, ix.homingTotalEndIndex)
                               [] n = "homingPeri" ->
                                    P(n, ix.homingPeriStartIndex, ix.homingPeriEndIndex)
                               [] n = "homingPeriNoLever" ->
                                    P(n, ix.homingPeriNoLeverStartIndex,
                                         ix.homingPeriNoLeverEndIndex)]]
       ELSE [raised |-> "none", base |-> base, index |-> <<>>,
             pathD |-> [n \in PathNames |->
                          IF n = "all" THEN NavPath(n, allPose, 7)
                          ELSE NavPath(n, 1, 7)]]

\* "don't start new journeys after first lever press": when a journey
\* starts after the press the last row is removed and its end given to the
\* new last row; raised when no row is left to take it
journeysBeforePress(rows, press) ==
    IF \E k \in 1..Len(rows) : rows[k].start > press
    THEN IF Len(rows) = 1
         THEN [raised |-> "IndexError", rows |-> <<>>]
         ELSE LET lastEnd == rows[Len(rows)].end
                  kept == SubSeq(rows, 1, Len(rows) - 1)
              IN [raised |-> "none",
                  rows |-> [kept EXCEPT ![Len(kept)].end = lastEnd]]
    ELSE [raised |-> "none", rows |-> rows]

\* the loop appending a Journey per row, up to the first that raises
RECURSIVE appendJourneys(_, _, _, _, _, _)
appendJourneys(rows, j, acc, presses, sdf, posi) ==
    IF j > Len(rows) THEN [raised |-> "none", journeyList |-> acc]
    ELSE LET jn == Journey(j, rows[j].start, rows[j].end, presses, sdf, posi)
         IN IF jn.raised # "none"
            THEN [raised |-> jn.raised, journeyList |-> acc]
            ELSE appendJourneys(rows, j + 1, Append(acc, jn), presses, sdf, posi)

\* the frame at which the periphery is reached after the first press, None
\* when the loop over range(press, last frame) finds none
peripheryAfterFirstLeverPress(posi, press, last) ==
    LET out == {i \in press..(last - 1) :
                   distanceFromArenaCenterAbove(posi[i], radiusPeripheryCm)}
    IN IF out = {} THEN None ELSE SetMin(out)

\* the journey whose pathD the trial takes: the first with a lever press,
\* the last one when there is none
pathDJourney(jl) ==
    LET pressed == {k \in 1..Len(jl) : jl[k].base.leverPressed}
    IN IF pressed # {} THEN jl[SetMin(pressed)] ELSE jl[Len(jl)]

\* ---- inputs ----
\* positions of the mouse, one for each value of the location label and
\* one beside the lever
PArena == <<0, 760>>     \* on the arena, beyond the periphery radius
PGap == <<0, 820>>       \* between the arena and the bridge
PBridge == <<0, 1000>>   \* on the bridge
PointOf(kind) ==
    CASE kind = "L" -> PLever
      [] kind = "M" -> PBetween
      [] kind = "C" -> PCenter
      [] kind = "A" -> PArena
      [] kind = "G" -> PGap
      [] kind = "B" -> PBridge
      [] kind = "N" -> PMissing

Kinds == {"L", "M", "C", "A", "G", "B", "N"}
\* the time from a frame to the next, in ticks, and the length of a gap in
\* the video
FrameTicks == 2
GapTicks == 6
\* frames of the trial that vary, frames before the trial, visits of a
\* trial with journeys
MaxFrames == 3
MaxPreFrames == 3
MaxVisits == 6
\* a run of frames on the bridge, long enough for a valid trial
Pad == [k \in 1..MinValidDetections |-> "B"]

SeqsFromTo(S, a, b) == UNION {[1..m -> S] : m \in a..b}

\* an input: the frames before the trial, the frames of the trial (a pad
\* before or after those that vary), whether the video has a gap after the
\* first frame of the trial, the frame of the lever press (0: no press)
TrialInputs ==
    LET labels == {[pre |-> <<>>, pad |-> pd, free |-> fr, gap |-> g, press |-> pr] :
                      pd \in {"none", "head", "tail"}, fr \in SeqsFromTo(Kinds, 0, MaxFrames),
                      g \in BOOLEAN, pr \in 0..MaxFrames}
        repair == {[pre |-> p, pad |-> pd, free |-> fr, gap |-> FALSE, press |-> pr] :
                      p \in SeqsFromTo({"B", "N", "C"}, 1, MaxPreFrames),
                      pd \in {"none", "tail"}, fr \in {<<"C">>, <<"C", "L", "C">>},
                      pr \in {0, 2}}
        visits == {[pre |-> <<>>, pad |-> pd, free |-> fr, gap |-> FALSE, press |-> pr] :
                      pd \in {"head", "tail"},
                      fr \in SeqsFromTo({"B", "C", "L"}, MaxFrames + 1, MaxVisits)
                             \cup SeqsFromTo({"B", "C", "L", "A"}, MaxFrames + 1, MaxVisits - 1),
                      pr \in 1..MaxVisits}
    IN {i \in labels \cup repair : i.press <= Len(i.free)}
       \cup {i \in visits : i.press <= Len(i.free) /\ i.free[i.press] = "L"}

\* the frames of an input and what the session tables hold for it
InputFrames(i) ==
    i.pre \o (IF i.pad = "head" THEN Pad ELSE <<>>) \o i.free
          \o (IF i.pad = "tail" THEN Pad ELSE <<>>)
InputFirst(i) == Len(i.pre) + 1
InputTime(i, k) ==
    FrameTicks * k + (IF i.gap /\ k > InputFirst(i) THEN GapTicks - FrameTicks ELSE 0)
InputPressFrame(i) ==
    Len(i.pre) + (IF i.pad = "head" THEN Len(Pad) ELSE 0) + i.press

TrialInit ==
    \E i \in TrialInputs :
        LET n == Len(InputFrames(i))
        IN /\ mLPosi = [k \in 1..n |-> PointOf(InputFrames(i)[k])]
           /\ videoLog = [k \in 1..n |-> InputTime(i, k)]
           /\ log = IF i.press = 0 THEN <<>>
                    ELSE <<[event |-> "lever_press", param |-> 0,
                            time |-> InputTime(i, InputPressFrame(i))]>>
           \* the row of the trial in the trials data frame of the session
           /\ trials = <<[trialNo |-> 1,
                          startTime |-> InputTime(i, InputFirst(i)) - 1,
                          endTime |-> InputTime(i, n) + 1]>>
           /\ doorEvents = <<>>
           /\ probIndices = <<>>
           /\ spc = "done"
           \* Trial.__init__
           /\ startTime = InputTime(i, InputFirst(i)) - 1
           /\ endTime = InputTime(i, n) + 1
           /\ valid = TRUE
           /\ back = 0
           /\ trialMLPx = <<>>
           /\ startVideoIndex = None
           /\ endVideoIndex = None
           /\ leverPress = <<>>
           /\ nLeverPresses = None
           /\ stateDF = <<>>
           /\ journeyTransitionIndices = <<>>
           /\ journeyStartEndIndices = [none |-> TRUE, rows |-> <<>>]
           /\ journeyList = <<>>
           /\ nJourneys = None
           /\ pathD = <<>>
           /\ light = "unset"
           /\ tpc = "start"

\* previousLight taking the light events up to startTime, startTime included
previousLightUpToStart(lg, s) ==
    LET lightEvents == SelectSeq(lg, LAMBDA r : r.event = "light")
        before == SelectSeq(lightEvents, LAMBDA r : r.time <= s)
    IN IF Len(before) = 0 THEN NaN ELSE before[Len(before)].param

\* Trial.previousLight: the param of the last row, in the order of the log,
\* among the light events with a time below startTime; NaN when there is none
previousLight(lg, s) ==
    LET lightEvents == SelectSeq(lg, LAMBDA r : r.event = "light")
        before == SelectSeq(lightEvents, LAMBDA r : r.time < s)
    IN IF Len(before) = 0 THEN NaN ELSE before[Len(before)].param

\* Trial.lightFromCode
lightFromCode(x) == IF x = 1 \/ IsNaN(x) THEN "light" ELSE "dark"

\* TrialElectro.getLightCondition
getLightCondition(lg, s) ==
    LET lightEvents == SelectSeq(lg, LAMBDA r : r.event = "light")
        before == SelectSeq(lightEvents, LAMBDA r : r.time < s)
        lightCode == IF Len(before) = 0 THEN NaN ELSE before[Len(before)].param
    IN IF lightCode = 1 \/ IsNaN(lightCode) THEN "light" ELSE "dark"

\* the first position of the tracking rows of the trial
firstPosition(posi, rows) == posi[rows[1]]

\* lines 248-279: the tracking rows of the trial and the number of detections
CheckDetections ==
    /\ tpc = "start"
    /\ trialMLPx' = trialRows(videoLog, startTime, endTime)
    /\ valid' = IF validMouse(mLPosi, trialMLPx') < MinValidDetections
                THEN FALSE ELSE valid
    /\ light' = lightFromCode(previousLight(log, startTime))
    /\ tpc' = "first"
    /\ UNCHANGED <<startTime, endTime, back, startVideoIndex, endVideoIndex,
                   leverPress, nLeverPresses, stateDF, journeyTransitionIndices,
                   journeyStartEndIndices, journeyList, nJourneys, pathD>>
    /\ UNCHANGED NotTrial

\* line 287: mouseX.iloc[0] of a trial without a frame
FirstFrameIndexError ==
    /\ tpc = "first"
    /\ trialMLPx = <<>>
    /\ tpc' = "IndexError"
    /\ UNCHANGED <<light, startTime, endTime, valid, back, trialMLPx, startVideoIndex,
                   endVideoIndex, leverPress, nLeverPresses, stateDF,
                   journeyTransitionIndices, journeyStartEndIndices, journeyList,
                   nJourneys, pathD>>
    /\ UNCHANGED NotTrial

\* lines 287-294: the mouse is on the bridge or out of view at the first
\* frame, or the repair of the start time begins
StartTest ==
    /\ tpc = "first"
    /\ trialMLPx # <<>>
    /\ LET p == firstPosition(mLPosi, trialMLPx)
       IN IF isBridge(p) \/ isHome(p)
          THEN tpc' = "indices" /\ UNCHANGED back
          ELSE tpc' = "repair" /\ back' = 0
    /\ UNCHANGED <<light, startTime, endTime, valid, trialMLPx, startVideoIndex,
                   endVideoIndex, leverPress, nLeverPresses, stateDF,
                   journeyTransitionIndices, journeyStartEndIndices, journeyList,
                   nJourneys, pathD>>
    /\ UNCHANGED NotTrial

\* lines 295-303: one iteration of the while loop
StartRepairIteration ==
    /\ tpc = "repair"
    /\ back > maxBackward
    /\ back' = back - step
    /\ startTime' = startTime + back'
    /\ trialMLPx' = trialRows(videoLog, startTime', endTime)
    /\ LET p == firstPosition(mLPosi, trialMLPx')
       IN tpc' = IF isBridge(p) \/ isHome(p) THEN "indices" ELSE "repair"
    /\ UNCHANGED <<light, endTime, valid, startVideoIndex, endVideoIndex, leverPress,
                   nLeverPresses, stateDF, journeyTransitionIndices,
                   journeyStartEndIndices, journeyList, nJourneys, pathD>>
    /\ UNCHANGED NotTrial

\* line 295: the loop ends because back reached maxBackward
StartRepairEnd ==
    /\ tpc = "repair"
    /\ ~(back > maxBackward)
    /\ tpc' = "indices"
    /\ UNCHANGED <<light, startTime, endTime, valid, back, trialMLPx, startVideoIndex,
                   endVideoIndex, leverPress, nLeverPresses, stateDF,
                   journeyTransitionIndices, journeyStartEndIndices, journeyList,
                   nJourneys, pathD>>
    /\ UNCHANGED NotTrial

\* lines 309-336: the tracking rows again, the video indices, the gap test
VideoIndices ==
    /\ tpc = "indices"
    /\ trialMLPx' = trialRows(videoLog, startTime, endTime)
    /\ startVideoIndex' = trialMLPx'[1]
    /\ endVideoIndex' = trialMLPx'[Len(trialMLPx')]
    /\ valid' = IF maxInterFrameIntervalsAbove(videoLog, trialMLPx', MaxInterFrameIntervals)
                THEN FALSE ELSE valid
    /\ tpc' = "presses"
    /\ UNCHANGED <<light, startTime, endTime, back, leverPress, nLeverPresses, stateDF,
                   journeyTransitionIndices, journeyStartEndIndices, journeyList,
                   nJourneys, pathD>>
    /\ UNCHANGED NotTrial

\* lines 441-451
LeverPresses ==
    /\ tpc = "presses"
    /\ leverPress' = leverPressRows(log, videoLog, trialMLPx, startTime, endTime)
    /\ nLeverPresses' = Len(leverPress')
    /\ valid' = IF nLeverPresses' = 0 THEN FALSE ELSE valid
    /\ tpc' = "sectioning"
    /\ UNCHANGED <<light, startTime, endTime, back, trialMLPx, startVideoIndex,
                   endVideoIndex, stateDF, journeyTransitionIndices,
                   journeyStartEndIndices, journeyList, nJourneys, pathD>>
    /\ UNCHANGED NotTrial

\* lines 459-475
Sectioning ==
    /\ tpc = "sectioning"
    /\ stateDF' = sectioning(mLPosi, trialMLPx)
    /\ tpc' = "checks"
    /\ UNCHANGED <<light, startTime, endTime, valid, back, trialMLPx, startVideoIndex,
                   endVideoIndex, leverPress, nLeverPresses,
                   journeyTransitionIndices, journeyStartEndIndices, journeyList,
                   nJourneys, pathD>>
    /\ UNCHANGED NotTrial

\* lines 490-529
ZoneChecks ==
    /\ tpc = "checks"
    /\ valid' = IF zoneChecksFail(stateDF, leverPress, startVideoIndex, endVideoIndex)
                THEN FALSE ELSE valid
    /\ tpc' = "boundaries"
    /\ UNCHANGED <<light, startTime, endTime, back, trialMLPx, startVideoIndex,
                   endVideoIndex, leverPress, nLeverPresses, stateDF,
                   journeyTransitionIndices, journeyStartEndIndices, journeyList,
                   nJourneys, pathD>>
    /\ UNCHANGED NotTrial

\* lines 539-566
JourneyBoundaries ==
    /\ tpc = "boundaries"
    /\ journeyTransitionIndices' = journeyTransitions(stateDF)
    /\ journeyStartEndIndices' =
          IF Len(journeyTransitionIndices') > 0
          THEN [none |-> FALSE,
                rows |-> journeyStartEnd(journeyTransitionIndices', endVideoIndex)]
          ELSE journeyStartEndIndices
    /\ journeyList' = <<>>
    /\ tpc' = "journeys"
    /\ UNCHANGED <<light, startTime, endTime, valid, back, trialMLPx, startVideoIndex,
                   endVideoIndex, leverPress, nLeverPresses, stateDF, nJourneys,
                   pathD>>
    /\ UNCHANGED NotTrial

\* lines 571-637: the journeys of a valid trial
CreateJourneys ==
    /\ tpc = "journeys"
    /\ valid
    /\ IF journeyStartEndIndices.none
       THEN \* None["start"]
            /\ tpc' = "TypeError"
            /\ UNCHANGED <<journeyStartEndIndices, journeyList>>
       ELSE LET press == leverPress[1].videoIndex
                kept == journeysBeforePress(journeyStartEndIndices.rows, press)
                made == appendJourneys(kept.rows, 1, <<>>, leverPress, stateDF, mLPosi)
            IN IF kept.raised # "none"
               THEN /\ tpc' = kept.raised
                    /\ UNCHANGED <<journeyStartEndIndices, journeyList>>
               ELSE /\ journeyStartEndIndices' = [none |-> FALSE, rows |-> kept.rows]
                    /\ journeyList' = made.journeyList
                    /\ tpc' = IF made.raised # "none" THEN made.raised
                              ELSE IF IsNone(peripheryAfterFirstLeverPress(
                                                mLPosi, press, endVideoIndex))
                                   THEN "KeyError"
                                   ELSE "summary"
    /\ UNCHANGED <<light, startTime, endTime, valid, back, trialMLPx, startVideoIndex,
                   endVideoIndex, leverPress, nLeverPresses, stateDF,
                   journeyTransitionIndices, nJourneys, pathD>>
    /\ UNCHANGED NotTrial

\* lines 639-655: the one journey of an invalid trial
CreateJourneyInvalid ==
    /\ tpc = "journeys"
    /\ ~valid
    /\ LET jn == Journey(1, startVideoIndex, endVideoIndex, <<>>, stateDF, mLPosi)
       IN /\ journeyList' = IF jn.raised = "none" THEN <<jn>> ELSE journeyList
          /\ tpc' = IF jn.raised = "none" THEN "summary" ELSE jn.raised
    /\ UNCHANGED <<light, startTime, endTime, valid, back, trialMLPx, startVideoIndex,
                   endVideoIndex, leverPress, nLeverPresses, stateDF,
                   journeyTransitionIndices, journeyStartEndIndices, nJourneys,
                   pathD>>
    /\ UNCHANGED NotTrial

\* lines 657-668; journeyList[-1] of an empty list raises
Finish ==
    /\ tpc = "summary"
    /\ nJourneys' = Len(journeyList)
    /\ IF journeyList = <<>>
       THEN tpc' = "IndexError" /\ UNCHANGED pathD
       ELSE tpc' = "done" /\ pathD' = pathDJourney(journeyList).pathD
    /\ UNCHANGED <<light, startTime, endTime, valid, back, trialMLPx, startVideoIndex,
                   endVideoIndex, leverPress, nLeverPresses, stateDF,
                   journeyTransitionIndices, journeyStartEndIndices, journeyList>>
    /\ UNCHANGED NotTrial

TrialNext ==
    \/ CheckDetections
    \/ FirstFrameIndexError
    \/ StartTest
    \/ StartRepairIteration
    \/ StartRepairEnd
    \/ VideoIndices
    \/ LeverPresses
    \/ Sectioning
    \/ ZoneChecks
    \/ JourneyBoundaries
    \/ CreateJourneys
    \/ CreateJourneyInvalid
    \/ Finish

(***************************************************************************)
(* NavPath.__init__                                                        *)
(*                                                                         *)
(* A pose array is its number of columns and its rows <<x, y, time>>; the  *)
(* model keeps for every statistic whether it is the undefined value (NaN, *)
(* an array of NaN, or None) or the outcome of the computation.            *)
(***************************************************************************)

StatisticNames ==
    {"length", "duration", "meanVectorLengthPosi", "meanVectorDirectionPosi",
     "meanVectorLengthOri", "meanVectorDirectionOri", "meanSpeed", "speedProfile",
     "oriAngularDistance", "oriAngularSpeed", "mvAngularDistance", "mvAngularSpeed",
     "medianMVDeviationToTarget", "medianHDDeviationToTarget",
     "entryAngleAroundTarget", "exitAngleAroundTarget",
     "cumSumDiffAngleAroundTarget", "endCumSumDiffAngleAroundTarget",
     "rangeCumSumDiffAngleAroundTarget"}

\* the statistics of the branch "self.pPose is None"
navPathUndefined == [n \in StatisticNames |-> "undefined"]

\* the entries of speed that are not NaN: mv3 is a nansum and never NaN,
\* timeDiff ends with the appended NaN
speedShortLen(rows) == IF rows = <<>> THEN 0 ELSE Len(rows) - 1

\* the number of defined angles around the target
definedAngles(rows) == Cardinality({k \in 1..Len(rows) : ~IsNaN(rows[k][1])})

\* the number of defined entries of the cumulated sum of the differences of
\* angle: a difference needs both its points, the sum every difference so far
definedCumSum(rows) ==
    Cardinality({k \in 1..(Len(rows) - 1) :
                    \A m \in 1..(k + 1) : ~IsNaN(rows[m][1])})

\* the smallest counts that give a speed profile and angles around the target
MinSpeedSamples == 9
MinAngles == 2

\* the statistics of a pose that passed the shape tests
navPathComputed(rows, hasTarget) ==
    [n \in StatisticNames |->
        CASE n = "speedProfile" ->
                IF speedShortLen(rows) > MinSpeedSamples THEN "computed" ELSE "undefined"
          [] n \in {"medianMVDeviationToTarget", "medianHDDeviationToTarget",
                    "cumSumDiffAngleAroundTarget"} ->
                IF hasTarget THEN "computed" ELSE "undefined"
          [] n \in {"entryAngleAroundTarget", "exitAngleAroundTarget"} ->
                IF hasTarget /\ definedAngles(rows) > MinAngles
                THEN "computed" ELSE "undefined"
          [] n \in {"endCumSumDiffAngleAroundTarget", "rangeCumSumDiffAngleAroundTarget"} ->
                IF hasTarget /\ definedCumSum(rows) > MinAngles
                THEN "computed" ELSE "undefined"
          [] OTHER -> "computed"]

\* ---- inputs ----
MaxPoseRows == 3
LongPoseRows == 11
PoseColumns == {6, 7, 8, 9}
PoseRow(kind, k) == IF kind = "n" THEN <<NaN, NaN, k>> ELSE <<10 * k, 0, k>>
PoseInputs ==
    {[k \in 1..Len(s) |-> PoseRow(s[k], k)] :
        s \in SeqsUpTo({"p", "n"}, MaxPoseRows)
              \cup {[k \in 1..m |-> "p"] : m \in (MaxPoseRows + 1)..LongPoseRows}}

NavPathInit ==
    /\ pPose \in {[none |-> FALSE, nCols |-> c, rows |-> r] :
                     c \in PoseColumns, r \in PoseInputs}
    /\ targetPose \in BOOLEAN
    /\ statistics = <<>>
    /\ npc = "columns"

\* lines 51-53: the test of the number of columns
ColumnTest ==
    /\ npc = "columns"
    /\ pPose' = IF pPose.nCols # 7 /\ pPose.nCols # 8
                THEN [pPose EXCEPT !.none = TRUE] ELSE pPose
    /\ npc' = "rows"
    /\ UNCHANGED <<targetPose, statistics>>
    /\ UNCHANGED NotNavPath

\* lines 54-56: self.pPose.shape[0] < 2, which raises when pPose is None
RowTest ==
    /\ npc = "rows"
    /\ IF pPose.none
       THEN npc' = "AttributeError" /\ UNCHANGED pPose
       ELSE /\ npc' = "statistics"
            /\ pPose' = IF Len(pPose.rows) < 2
                        THEN [pPose EXCEPT !.none = TRUE] ELSE pPose
    /\ UNCHANGED <<targetPose, statistics>>
    /\ UNCHANGED NotNavPath

\* lines 58-93: the undefined statistics
SetUndefined ==
    /\ npc = "statistics"
    /\ pPose.none
    /\ statistics' = navPathUndefined
    /\ npc' = "done"
    /\ UNCHANGED <<pPose, targetPose>>
    /\ UNCHANGED NotNavPath

\* lines 95-254
ComputeStatistics ==
    /\ npc = "statistics"
    /\ ~pPose.none
    /\ statistics' = navPathComputed(pPose.rows, targetPose)
    /\ npc' = "done"
    /\ UNCHANGED <<pPose, targetPose>>
    /\ UNCHANGED NotNavPath

NavPathNext ==
    \/ ColumnTest
    \/ RowTest
    \/ SetUndefined
    \/ ComputeStatistics

\* the objects the other specifications leave alone
LeverIdle == LeverInit
SessionIdle ==
    /\ log = <<>>
    /\ doorEvents = <<>>
    /\ probIndices = <<>>
    /\ trials = <<>>
    /\ spc = "idle"

TrialIdle ==
    /\ mLPosi = <<>>
    /\ videoLog = <<>>
    /\ startTime = 0
    /\ endTime = 0
    /\ valid = TRUE
    /\ back = 0
    /\ trialMLPx = <<>>
    /\ startVideoIndex = None
    /\ endVideoIndex = None
    /\ leverPress = <<>>
    /\ nLeverPresses = None
    /\ stateDF = <<>>
    /\ journeyTransitionIndices = <<>>
    /\ journeyStartEndIndices = [none |-> TRUE, rows |-> <<>>]
    /\ journeyList = <<>>
    /\ nJourneys = None
    /\ pathD = <<>>
    /\ light = "unset"
    /\ tpc = "idle"

TrialListIdle == trialList = <<>>

NavPathIdle ==
    /\ pPose = [none |-> TRUE, nCols |-> 0, rows |-> <<>>]
    /\ targetPose = FALSE
    /\ statistics = <<>>
    /\ npc = "idle"

AroundTargetIdle ==
    /\ animalPoints = <<>>
    /\ cumSumDiffAngleAroundTarget = <<>>
    /\ endCumSumDiffAngleAroundTarget = NaN
    /\ rangeCumSumDiffAngleAroundTarget = NaN
    /\ apc = "idle"

VideoLogIdle ==
    /\ vlog = <<>>
    /\ addCount = 0
    /\ fpc = "idle"

TrialElectroIdle ==
    /\ mousePose = <<>>
    /\ positionZones = <<>>
    /\ validElectro = TRUE
    /\ epc = "idle"

LeverSpecInit == LeverInit /\ SessionIdle /\ TrialIdle /\ TrialListIdle /\ NavPathIdle
    /\ AroundTargetIdle
    /\ VideoLogIdle /\ TrialElectroIdle
SpecLever == LeverSpecInit /\ [][LeverNext]_vars

SessionSpecInit == SessionInit /\ LeverIdle /\ TrialIdle /\ TrialListIdle /\ NavPathIdle
    /\ AroundTargetIdle
    /\ VideoLogIdle /\ TrialElectroIdle
SpecSession == SessionSpecInit /\ [][SessionNext]_vars

TrialSpecInit == TrialInit /\ LeverIdle /\ TrialListIdle /\ NavPathIdle
    /\ AroundTargetIdle
    /\ VideoLogIdle /\ TrialElectroIdle
SpecTrial == TrialSpecInit /\ [][TrialNext]_vars

NavPathSpecInit == NavPathInit /\ LeverIdle /\ SessionIdle /\ TrialIdle /\ TrialListIdle
    /\ AroundTargetIdle
    /\ VideoLogIdle /\ TrialElectroIdle
SpecNavPath == NavPathSpecInit /\ [][NavPathNext]_vars

(***************************************************************************)
(* Properties of Lever.isAt                                                *)
(***************************************************************************)

\* the point the zones loop handles in this step
ZonesStepTaken == lpc = "zones" /\ Len(res') = Len(res) + 1
CurrentPoint == points[Len(res) + 1]
Defined(p) == ~IsNaN(p[1]) /\ ~IsNaN(p[2])
InEnter(p) == contains_points(leverCm.enterZonePoints, p)
InExit(p) == contains_points(leverCm.exitZonePoints, p)

\* C1: every step of the "zones" loop on a point with defined coordinates
\* sets the at-lever state to "inside the exit outline" when the state was
\* at-lever and to "inside the enter outline" when it was not (so it is
\* entered only inside the enter outline, left only outside the exit
\* outline, and kept between the two), and the value stored for a point is
\* the state after that point.
C1_ZonesHysteresis ==
    [][ZonesStepTaken =>
          /\ Defined(CurrentPoint) =>
                isAtLever' = (IF isAtLever THEN InExit(CurrentPoint)
                                           ELSE InEnter(CurrentPoint))
          /\ Defined(CurrentPoint) /\ InExit(CurrentPoint) /\ ~InEnter(CurrentPoint)
                => isAtLever' = isAtLever
          /\ res'[Len(res')] = isAtLever']_vars

\* C1 witness: the state was at-lever and stays so on a point between the
\* two outlines, which would not have entered the zone.
C1_Witness ==
    /\ lpc = "zones"
    /\ Len(res) >= 2
    /\ points[Len(res)] = PBetween
    /\ points[Len(res) - 1] = PLever
    /\ res[Len(res)] = TRUE
    /\ isAtLever = TRUE

\* C9: a step of the "zones" loop on a point with a missing coordinate
\* leaves the at-lever state unchanged and stores the previous state.
C9_MissingKeepsState ==
    [][ZonesStepTaken /\ ~Defined(CurrentPoint) =>
          /\ isAtLever' = isAtLever
          /\ res'[Len(res')] = isAtLever]_vars

(***************************************************************************)
(* Properties of Session.segmentTrialsFromLog                              *)
(***************************************************************************)

\* the three repair steps are over
AfterRepair ==
    \/ spc = "repair" /\ probIndices = <<>>
    \/ spc \in {"done", "ValueError"}

\* the stream holds an open that a close follows
OpenThenClose(ev) ==
    \E a, b \in 1..Len(ev) : a < b /\ ev[a].param = 0 /\ ev[b].param = 1

\* strict alternation from an open to a close
AlternatesOpenToClose(ev) ==
    /\ ev # <<>>
    /\ ev[1].param = 0
    /\ ev[Len(ev)].param = 1
    /\ \A k \in 1..(Len(ev) - 1) : ev[k].param # ev[k+1].param

\* C2: for every stream after the session start that has an open followed
\* later by a close, the door events left by the three repair steps
\* alternate strictly, start with an open and end with a close, so there
\* are as many opens as closes.
C2_RepairAlternates ==
    AfterRepair /\ OpenThenClose(doorEventsAfterStart(log)) =>
        /\ AlternatesOpenToClose(doorEvents)
        /\ Len(doorOpens(doorEvents)) = Len(doorCloses(doorEvents))

\* the door rows after the start, as a log of their own
StreamOf(lg) ==
    LET ev == doorEventsAfterStart(lg)
    IN [k \in 1..Len(ev) |->
           [event |-> "door", param |-> ev[k].param, time |-> ev[k].time]]

\* a door-open at time t put after the first p rows of the stream
InsertOpen(lg, p, t) ==
    SubSeq(lg, 1, p) \o <<[event |-> "door", param |-> 0, time |-> t]>>
        \o SubSeq(lg, p + 1, Len(lg))

\* the times an inserted row may carry: not before the row it follows
\* (and after the start), not after the row it precedes
InsertTimes(lg, p) ==
    (IF p = 0 THEN 1 ELSE lg[p].time) ..
        (IF p = Len(lg) THEN lg[p].time + 1 ELSE lg[p+1].time)

NoEventRemoved ==
    spc = "done" /\ AlternatesOpenToClose(doorEventsAfterStart(log)) =>
        doorEvents = doorEventsAfterStart(log)

NominalStartTime == trials[1].startTime

\* C3: every iteration of the start-time repair lowers startTime by exactly
\* one step of 0.1 s, startTime stays within 2.0 s below the start time the
\* trial was built with, and the loop makes at most 20 iterations (back
\* never passes maxBackward).
C3_StartRepairBounded ==
    [][tpc = "repair" =>
          /\ back' # back => startTime' = startTime - step
          /\ startTime' <= NominalStartTime
          /\ startTime' >= NominalStartTime + maxBackward
          /\ back' >= maxBackward]_vars

LabelOrder == <<"gap", "lever", "arenaCenter", "arena", "bridge", "homeBase">>
FirstTrue(row) ==
    LabelOrder[SetMin({k \in 1..Len(LabelOrder) : row[LabelOrder[k]]})]

\* C4: every frame of the trial has one label out of the six; gap is true
\* exactly when none of the five other booleans is; the label is the first
\* boolean that is true in the order gap, lever, arenaCenter, arena, bridge,
\* homeBase, so the boolean of the label is true; and a frame without a
\* position that follows a frame at the lever, so that the at-lever state
\* it inherits is true, is labelled lever.
C4_OneLabelPerFrame ==
    \A i \in DOMAIN stateDF :
        LET row == stateDF[i]
        IN /\ row.loca \in {LabelOrder[k] : k \in 1..Len(LabelOrder)}
           /\ row.gap = ~(row.lever \/ row.arenaCenter \/ row.arena
                            \/ row.bridge \/ row.homeBase)
           /\ row.loca = FirstTrue(row)
           /\ row[row.loca]
           /\ (IsNaN(mLPosi[i][1]) /\ (i - 1) \in DOMAIN stateDF
                 /\ stateDF[i - 1].lever) => row.loca = "lever"

\* C5: once the journeys of a valid trial are built, none of them starts
\* after the video index of the first lever press.
C5_NoJourneyStartsAfterPress ==
    valid /\ tpc \in {"summary", "done"} =>
        \A k \in 1..Len(journeyList) :
            journeyList[k].base.startIndex <= leverPress[1].videoIndex

\* ---- the checks of C6, read from the tables of the trial ----
TrialFrames == startVideoIndex..endVideoIndex
FirstPress == leverPress[1].videoIndex
FewDetections ==
    Cardinality({i \in 1..Len(mLPosi) :
                    /\ videoLog[i] > NominalStartTime
                    /\ videoLog[i] < endTime
                    /\ ~IsNaN(mLPosi[i][1])}) < MinValidDetections
VideoGap ==
    \E i \in TrialFrames :
        (i + 1) \in TrialFrames /\ videoLog[i + 1] - videoLog[i] > MaxInterFrameIntervals
NoLeverPress == nLeverPresses = 0
NoLeverFrame == \A i \in TrialFrames : stateDF[i].loca # "lever"
PressOffLever == nLeverPresses > 0 /\ stateDF[FirstPress].loca # "lever"
NoArenaFrame == \A i \in TrialFrames : ~stateDF[i].arena
NoCenterBeforePress ==
    /\ nLeverPresses > 0
    /\ \A i \in TrialFrames : i <= FirstPress => stateDF[i].loca # "arenaCenter"
NoArenaAfterPress ==
    /\ nLeverPresses > 0
    /\ \A i \in TrialFrames :
          i >= FirstPress => stateDF[i].loca \notin {"arena", "arenaCenter"}

TrialErrors == {"IndexError", "KeyError", "TypeError"}

FinishedChecks ==
    /\ tpc = "done" =>
          /\ (FewDetections \/ VideoGap \/ NoLeverPress \/ NoLeverFrame
                \/ PressOffLever \/ NoArenaFrame \/ NoCenterBeforePress
                \/ NoArenaAfterPress) => ~valid
          /\ DOMAIN stateDF = TrialFrames
          /\ journeyList # <<>>
    \* an invalid trial that has a frame goes on to the end
    /\ ~valid /\ trialMLPx # <<>> => tpc \notin TrialErrors

TrialEnded == tpc = "done" \/ tpc \in TrialErrors

\* the paths of pathD that were not computed are undefined
UndefinedWhereNotComputed(pd) ==
    \A n \in DOMAIN pd : pd[n].nRows < 2 => ~pd[n].defined

\* C7: an invalid trial has exactly one journey, from the first to the last
\* video frame of the trial and without a lever press; and every trial that
\* has a frame, valid or not, ends with nJourneys >= 1 and with a pathD of
\* the "all" path and the six named paths.
C7_OneJourneyWhenInvalid ==
    /\ tpc = "done" /\ ~valid =>
          /\ Len(journeyList) = 1
          /\ journeyList[1].base.startIndex = startVideoIndex
          /\ journeyList[1].base.endIndex = endVideoIndex
          /\ journeyList[1].base.nLeverPresses = 0
          /\ ~journeyList[1].base.leverPressed
    /\ TrialEnded /\ trialMLPx # <<>> =>
          /\ nJourneys >= 1
          /\ DOMAIN pathD = PathNames
          /\ UndefinedWhereNotComputed(pathD)

(***************************************************************************)
(* Properties of NavPath.__init__                                          *)
(***************************************************************************)

\* the pose given to the constructor is not a valid one
InvalidPose(c, rows) == Len(rows) < 2 \/ (c # 7 /\ c # 8)

\* C8: the construction of a NavPath from an invalid pose, one of fewer
\* than 2 rows or of a number of columns other than 7 and 8, raises no
\* exception, and when it is over every statistic is undefined.
C8_InvalidPoseNeverRaises ==
    InvalidPose(pPose.nCols, pPose.rows) =>
        /\ npc # "AttributeError"
        /\ npc = "done" => \A n \in StatisticNames : statistics[n] = "undefined"


(***************************************************************************)
(* Pairing of the door events into trials                                  *)
(***************************************************************************)

\* the times of the door events get larger from each row to the next
TimesIncrease(ev) == \A k \in 1..(Len(ev) - 1) : ev[k].time < ev[k+1].time

\* trial k is the k-th remaining open with the k-th remaining close
PairedByPosition ==
    /\ Len(trials) = Len(doorOpens(doorEvents))
    /\ \A k \in 1..Len(trials) :
          /\ trials[k].trialNo = k
          /\ trials[k].startTime = doorOpens(doorEvents)[k].time
          /\ trials[k].endTime = doorCloses(doorEvents)[k].time

\* every trial starts before it ends, and ends before the next one starts
TrialsInOrder ==
    /\ \A k \in 1..Len(trials) : trials[k].startTime < trials[k].endTime
    /\ \A k \in 1..(Len(trials) - 1) : trials[k].endTime < trials[k+1].startTime

\* C11: once the repair is over and the trials table is to be built, there
\* is a trials table with one trial per remaining open, numbered from 1,
\* trial k running from the k-th remaining open to the k-th remaining
\* close; when the times of the door events increase along the log every
\* trial starts before it ends and ends before the next trial starts.
C11_PairedByPosition ==
    spc \in {"done", "ValueError"} =>
        /\ spc = "done"
        /\ PairedByPosition
        /\ TimesIncrease(doorEventsAfterStart(log)) => TrialsInOrder

(***************************************************************************)
(* The journey boundaries of a trial                                       *)
(***************************************************************************)

\* the rows of journeyStartEndIndices once the table is built
JourneyRows == journeyStartEndIndices.rows

JourneysChained ==
    /\ \A k \in 1..(Len(JourneyRows) - 1) :
          JourneyRows[k].end = JourneyRows[k+1].start - 1
    /\ \A k \in 1..Len(JourneyRows) : JourneyRows[k].start <= JourneyRows[k].end

\* C12: in the table of journey boundaries every journey ends on the frame
\* before the next one starts, no journey ends before it starts, and the
\* last journey ends on the last video frame of the trial, endVideoIndex.
C12_JourneysChained ==
    ~journeyStartEndIndices.none =>
        /\ JourneysChained
        /\ JourneyRows[Len(JourneyRows)].end = endVideoIndex

(***************************************************************************)
(* The two outlines of the lever zone                                      *)
(***************************************************************************)

\* the points of a grid of 0.5 cm that covers the exit outline
ZoneGrid == {<<10 * i, 10 * j>> : i \in (0 - 13)..13, j \in (0 - 11)..31}

\* every grid point inside the enter outline is inside the exit outline
EnterInsideExit == \A p \in ZoneGrid : InEnter(p) => InExit(p)

\* C13: with the outlines of calculatePose and the default scale factors,
\* every point inside the enter outline is inside the exit outline, and a
\* step of the "zones" loop on a point inside the enter outline leaves the
\* at-lever state true and stores true for the point, whatever the state
\* was before the step.
C13_InsideEnterIsAt ==
    /\ [](scalingFactorEnterZone < scalingFactorExitZone /\ EnterInsideExit)
    /\ [][ZonesStepTaken /\ InEnter(CurrentPoint) =>
             isAtLever' /\ res'[Len(res')]]_vars

\* C13 witness: the loop has stored true for two points inside the enter
\* outline, the first of them by its side wall.
C13_Witness ==
    /\ lpc = "zones"
    /\ points = <<PEdge, PLever>>
    /\ res = <<TRUE, TRUE>>
    /\ isAtLever

(***************************************************************************)
(* Lever.isAt with method "maxDistance"                                    *)
(***************************************************************************)

MaxDistanceStepTaken == lpc = "maxDistance" /\ Len(res') = Len(res) + 1

\* the distance of P from the outline of the lever, the closed polygon
\* p0-p1-p2-p3-p4-p5-p0, is below thr
outlineDistanceBelow(P, thr) ==
    \E k \in 1..Len(leverCm.points) :
        pointDistanceFromSegmentBelow(leverCm.points[k],
                                      leverCm.points[(k % Len(leverCm.points)) + 1],
                                      P, thr)

\* C14: a step of the "maxDistance" loop on a point with both coordinates
\* defined sets the at-lever state to (distance of the point from the
\* outline of the lever < threshold), whatever the state was, and stores
\* it; a step on a point with a missing coordinate leaves the state as it
\* was and stores it.
C14_MaxDistanceState ==
    [][MaxDistanceStepTaken =>
          /\ Defined(CurrentPoint) =>
                isAtLever' = outlineDistanceBelow(CurrentPoint, leverZoneMaxDistance)
          /\ ~Defined(CurrentPoint) => isAtLever' = isAtLever
          /\ res'[Len(res')] = isAtLever']_vars

(***************************************************************************)
(* The errors of Lever.isAt                                                *)
(***************************************************************************)

\* a step that enters Lever.isAt
IsAtCallStep ==
    lpc = "idle" /\ leverZoneMaxDistance' = leverZoneMaxDistance /\ vars' # vars

\* the call cannot be served: no threshold for "maxDistance", or a method
\* that is neither "zones" nor "maxDistance"
IsAtCallInError ==
    \/ method' = "maxDistance" /\ IsNaN(leverZoneMaxDistance)
    \/ method' \notin {"zones", "maxDistance"}

\* C15: a call of isAt with method "maxDistance" and no threshold
\* configured, or with a method other than "zones" and "maxDistance", ends
\* at once with an error: no point is processed, nothing is returned and
\* the at-lever state is the one before the call; every other call goes on
\* to the loop of its method.
C15_IsAtFailsFast ==
    /\ [](lret = "ValueError" => lpc = "idle" /\ res = <<>>)
    /\ [][IsAtCallStep =>
             IF IsAtCallInError
             THEN /\ lret' = "ValueError"
                  /\ lpc' = "idle"
                  /\ res' = <<>>
                  /\ isAtLever' = isAtLever
             ELSE lret' = "none" /\ lpc' = method']_vars

\* C15 witness: a call with method "maxDistance" on three points failed for
\* want of a threshold and left the lever in the at-lever state it had.
C15_Witness ==
    /\ lret = "ValueError"
    /\ method = "maxDistance"
    /\ IsNaN(leverZoneMaxDistance)
    /\ Len(points) = 3
    /\ isAtLever

(***************************************************************************)
(* Session.extractTrialFeatures: the Trial objects of Session.trialList.   *)
(*                                                                         *)
(* Every Trial of the list is given the log, the tracking table and the    *)
(* video log of the session.  A Trial is a record of trialList; its call   *)
(* of Trial.extractTrialFeatures is taken in two steps, up to the location *)
(* labels and from the checks on the labels to the journeys, and the steps *)
(* of the trials of the list are taken in any order.                       *)
(***************************************************************************)

\* the while loop of the start-time repair, from the value of back: the
\* start time it leaves
RECURSIVE startTimeRepair(_, _, _, _, _)
startTimeRepair(vl, posi, s, e, bk) ==
    IF bk > maxBackward
    THEN LET s2 == s + (bk - step)
             p == firstPosition(posi, trialRows(vl, s2, e))
         IN IF isBridge(p) \/ isHome(p) THEN s2
            ELSE startTimeRepair(vl, posi, s2, e, bk - step)
    ELSE s

\* stateDF as sectioning builds it, with a Lever that is in the state at
\* when isAt is called, and the state isAt leaves the Lever in
sectioningFrom(at, posi, rows) ==
    LET mousePoints == [k \in 1..Len(rows) |-> posi[rows[k]]]
        lever == isAtZones(at, mousePoints)
    IN [isAtLever |-> lever.isAtLever,
        stateDF |-> [i \in {rows[k] : k \in 1..Len(rows)} |->
                        LET k == CHOOSE m \in 1..Len(rows) : rows[m] = i
                        IN stateRow(lever.res[k], posi[i])]]

\* a Trial object as Trial.__init__ leaves it
newTrial(row) ==
    [pc |-> "new", startTime |-> row.startTime, endTime |-> row.endTime,
     valid |-> TRUE, trialMLPx |-> <<>>, leverPress |-> <<>>, leverCm |-> FALSE,
     stateDF |-> <<>>, journeyStartEndIndices |-> <<>>, journeyList |-> <<>>]

\* lines 248-475 of Trial.extractTrialFeatures on a new Trial tr, whose
\* Lever is in the state at when the labels are made
trialUpToSectioning(tr, lg, posi, vl, at) ==
    LET s == tr.startTime
        e == tr.endTime
        rows0 == trialRows(vl, s, e)
        valid0 == ~(validMouse(posi, rows0) < MinValidDetections)
    IN IF rows0 = <<>>
       THEN [tr EXCEPT !.pc = "IndexError", !.valid = valid0]
       ELSE LET p == firstPosition(posi, rows0)
                s1 == IF isBridge(p) \/ isHome(p) THEN s
                      ELSE startTimeRepair(vl, posi, s, e, 0)
                rows == trialRows(vl, s1, e)
                valid1 == valid0 /\ ~maxInterFrameIntervalsAbove(vl, rows,
                                                                 MaxInterFrameIntervals)
                presses == leverPressRows(lg, vl, rows, s1, e)
                sec == sectioningFrom(at, posi, rows)
            IN [tr EXCEPT !.pc = "sectioned", !.startTime = s1,
                          !.valid = valid1 /\ Len(presses) # 0,
                          !.trialMLPx = rows, !.leverPress = presses,
                          !.leverCm = sec.isAtLever, !.stateDF = sec.stateDF]

\* journeyList as the fields of each Journey
journeyBases(jl) == [k \in 1..Len(jl) |-> jl[k].base]

\* lines 490-668 of Trial.extractTrialFeatures on a Trial that has its labels
trialJourneys(tr, posi) ==
    LET first == tr.trialMLPx[1]
        last == tr.trialMLPx[Len(tr.trialMLPx)]
        v == tr.valid /\ ~zoneChecksFail(tr.stateDF, tr.leverPress, first, last)
        jti == journeyTransitions(tr.stateDF)
        checked == [tr EXCEPT !.valid = v]
    IN IF v
       THEN IF Len(jti) = 0 THEN [checked EXCEPT !.pc = "TypeError"]
            ELSE LET press == tr.leverPress[1].videoIndex
                     kept == journeysBeforePress(journeyStartEnd(jti, last), press)
                     made == appendJourneys(kept.rows, 1, <<>>, tr.leverPress,
                                            tr.stateDF, posi)
                 IN IF kept.raised # "none"
                    THEN [checked EXCEPT !.pc = kept.raised,
                                         !.journeyStartEndIndices =
                                             journeyStartEnd(jti, last)]
                    ELSE [checked EXCEPT
                            !.journeyStartEndIndices = kept.rows,
                            !.journeyList = journeyBases(made.journeyList),
                            !.pc = IF made.raised # "none" THEN made.raised
                                   ELSE IF IsNone(peripheryAfterFirstLeverPress(
                                                     posi, press, last))
                                        THEN "KeyError"
                                        ELSE "done"]
       ELSE LET jn == Journey(1, first, last, <<>>, tr.stateDF, posi)
                rows == IF Len(jti) = 0 THEN <<>> ELSE journeyStartEnd(jti, last)
            IN IF jn.raised # "none"
               THEN [checked EXCEPT !.pc = jn.raised, !.journeyStartEndIndices = rows]
               ELSE [checked EXCEPT !.pc = "done", !.journeyStartEndIndices = rows,
                                    !.journeyList = <<jn.base>>]

\* leverCmOfTrial with one Lever object for all the trials of the list: the
\* Lever is at the lever when a trial that made its labels left it there
leverCmOfSession(tl, t) ==
    \E u \in DOMAIN tl : u # t /\ tl[u].pc # "new" /\ tl[u].leverCm

\* self.leverCm = Lever(): the Lever that makes the labels of Trial t of the
\* list tl is one the Trial builds for itself, in the state of Lever.__init__
leverCmOfTrial(tl, t) == FALSE

\* ---- inputs: a session of two trials ----
\* the frames of a trial that vary
MaxTrialFrames == 3

\* the frames of a trial and the frame of its lever press, a frame on the
\* lever (0: no press); with pad the frames come after a run on the bridge
\* and the mouse goes back to the bridge by the arena after them
TrialSketches(maxLen, pads) ==
    {[pad |-> pd, free |-> fr, press |-> pr] :
        pd \in pads, fr \in SeqsFromTo({"L", "M", "C"}, 1, maxLen), pr \in 0..maxLen}

SketchFrames(i) == IF i.pad THEN Pad \o i.free \o <<"A", "B">> ELSE i.free

TrialListInputs ==
    {<<a, b>> \in TrialSketches(MaxTrialFrames - 1, {FALSE})
                    \X TrialSketches(MaxTrialFrames, BOOLEAN) :
        /\ a.press = 0 \/ (a.press <= Len(a.free) /\ a.free[a.press] = "L")
        /\ b.press = 0 \/ (b.press <= Len(b.free) /\ b.free[b.press] = "L")}

\* the log row of the lever press of a trial whose frames come after the
\* first n frames of the video
SketchPress(i, n) ==
    IF i.press = 0 THEN <<>>
    ELSE <<[event |-> "lever_press", param |-> 0,
            time |-> FrameTicks * (n + (IF i.pad THEN Len(Pad) ELSE 0) + i.press)]>>

\* the tables of the session and the Trial objects of createTrialList; the
\* video runs on between the trials, with one frame missing
TrialListInit ==
    \E io \in TrialListInputs :
        LET n1 == Len(SketchFrames(io[1]))
            n2 == Len(SketchFrames(io[2]))
            frames == SketchFrames(io[1]) \o SketchFrames(io[2])
            time(k) == FrameTicks * (IF k <= n1 THEN k ELSE k + 1)
        IN /\ mLPosi = [k \in 1..(n1 + n2) |-> PointOf(frames[k])]
           /\ videoLog = [k \in 1..(n1 + n2) |-> time(k)]
           /\ log = SketchPress(io[1], 0) \o SketchPress(io[2], n1 + 1)
           /\ trials = <<[trialNo |-> 1, startTime |-> time(1) - 1,
                          endTime |-> time(n1) + 1],
                         [trialNo |-> 2, startTime |-> time(n1 + 1) - 1,
                          endTime |-> time(n1 + n2) + 1]>>
           /\ doorEvents = <<>>
           /\ probIndices = <<>>
           /\ spc = "done"
           /\ trialList = [t \in 1..2 |-> newTrial(trials[t])]

\* Trial t of the list runs extractTrialFeatures up to its location labels
ExtractUpToSectioning ==
    \E t \in DOMAIN trialList :
        /\ trialList[t].pc = "new"
        /\ trialList' = [trialList EXCEPT ![t] =
              trialUpToSectioning(trialList[t], log, mLPosi, videoLog,
                                  leverCmOfTrial(trialList, t))]
        /\ UNCHANGED NotTrialList

\* Trial t of the list runs the rest of extractTrialFeatures
ExtractJourneys ==
    \E t \in DOMAIN trialList :
        /\ trialList[t].pc = "sectioned"
        /\ trialList' = [trialList EXCEPT ![t] = trialJourneys(trialList[t], mLPosi)]
        /\ UNCHANGED NotTrialList

TrialListNext ==
    \/ ExtractUpToSectioning
    \/ ExtractJourneys

TrialListSpecInit ==
    /\ TrialListInit
    /\ LeverIdle
    /\ NavPathIdle
    /\ AroundTargetIdle
    /\ VideoLogIdle /\ TrialElectroIdle
    /\ startTime = 0
    /\ endTime = 0
    /\ valid = TRUE
    /\ back = 0
    /\ trialMLPx = <<>>
    /\ startVideoIndex = None
    /\ endVideoIndex = None
    /\ leverPress = <<>>
    /\ nLeverPresses = None
    /\ stateDF = <<>>
    /\ journeyTransitionIndices = <<>>
    /\ journeyStartEndIndices = [none |-> TRUE, rows |-> <<>>]
    /\ journeyList = <<>>
    /\ nJourneys = None
    /\ pathD = <<>>
    /\ light = "unset"
    /\ tpc = "idle"

SpecTrialList == TrialListSpecInit /\ [][TrialListNext]_vars

\* what extractTrialFeatures gives for Trial t when it is the only trial
\* processed: the tables of the session and the row of the trial decide it
TrialAlone(t) ==
    LET r == trialUpToSectioning(newTrial(trials[t]), log, mLPosi, videoLog, FALSE)
    IN [sectioned |-> r,
        ended |-> IF r.pc = "sectioned" THEN trialJourneys(r, mLPosi) ELSE r]

\* C16: no step of a trial modifies the log, the tracking table, the video
\* log or the trials table of the session; a step writes the state of one
\* trial only; and whatever the order in which the steps of the trials are
\* taken, the start time, valid flag, location labels, Lever state and
\* journeys of a trial are those it has when it is processed alone.
C16_TrialsIndependent ==
    /\ [][/\ UNCHANGED <<log, mLPosi, videoLog, trials>>
          /\ \A t, u \in DOMAIN trialList :
                trialList'[t] # trialList[t] /\ u # t => trialList'[u] = trialList[u]]_vars
    /\ [](\A t \in DOMAIN trialList :
             /\ trialList[t].pc = "sectioned" => trialList[t] = TrialAlone(t).sectioned
             /\ trialList[t].pc \notin {"new", "sectioned"} =>
                   trialList[t] = TrialAlone(t).ended)

\* C16 witness: both trials are over; the Lever of the second was left at
\* the lever by its last frame, and the first trial, whose first frame is
\* beside the lever, inside the exit outline only, is not labelled lever
\* there.
C16_Witness ==
    /\ trialList # <<>>
    /\ \A t \in DOMAIN trialList : trialList[t].pc = "done"
    /\ trialList[2].leverCm
    /\ Len(trialList[2].journeyList) >= 1
    /\ mLPosi[1] = PBetween
    /\ trialList[1].stateDF[1].loca # "lever"

(***************************************************************************)
(* The light condition of a trial                                          *)
(***************************************************************************)

\* ---- inputs: a log with light events, and a trial start ----
MaxLogRows == 3
MaxLogTime == 3

\* the rows a log is made of: a light event with its code, or a door event
LogRows ==
    {[event |-> "light", param |-> c, time |-> t] : c \in 0..2, t \in 1..MaxLogTime}
      \cup {[event |-> "door", param |-> 0, time |-> t] : t \in 1..MaxLogTime}

\* the logs: the rows are in the order of their times
LightLogs ==
    {lg \in SeqsUpTo(LogRows, MaxLogRows) :
        \A k \in 1..(Len(lg) - 1) : lg[k].time <= lg[k+1].time}

LightInit ==
    /\ log \in LightLogs
    /\ startTime \in 1..(MaxLogTime + 1)
    /\ light = "unset"
    /\ tpc = "light"
    /\ doorEvents = <<>>
    /\ probIndices = <<>>
    /\ trials = <<>>
    /\ spc = "done"
    /\ mLPosi = <<>>
    /\ videoLog = <<>>
    /\ endTime = MaxLogTime + 2
    /\ valid = TRUE
    /\ back = 0
    /\ trialMLPx = <<>>
    /\ startVideoIndex = None
    /\ endVideoIndex = None
    /\ leverPress = <<>>
    /\ nLeverPresses = None
    /\ stateDF = <<>>
    /\ journeyTransitionIndices = <<>>
    /\ journeyStartEndIndices = [none |-> TRUE, rows |-> <<>>]
    /\ journeyList = <<>>
    /\ nJourneys = None
    /\ pathD = <<>>

\* trial.py, lines 264-265
SetLight ==
    /\ tpc = "light"
    /\ light' = lightFromCode(previousLight(log, startTime))
    /\ tpc' = "lightSet"
    /\ UNCHANGED <<startTime, endTime, valid, back, trialMLPx, startVideoIndex,
                   endVideoIndex, leverPress, nLeverPresses, stateDF,
                   journeyTransitionIndices, journeyStartEndIndices, journeyList,
                   nJourneys, pathD>>
    /\ UNCHANGED NotTrial

\* TrialElectro.getLightCondition
GetLightCondition ==
    /\ tpc = "light"
    /\ light' = getLightCondition(log, startTime)
    /\ tpc' = "lightSetElectro"
    /\ UNCHANGED <<startTime, endTime, valid, back, trialMLPx, startVideoIndex,
                   endVideoIndex, leverPress, nLeverPresses, stateDF,
                   journeyTransitionIndices, journeyStartEndIndices, journeyList,
                   nJourneys, pathD>>
    /\ UNCHANGED NotTrial

LightNext ==
    \/ SetLight
    \/ GetLightCondition

LightSpecInit == LightInit /\ LeverIdle /\ TrialListIdle /\ NavPathIdle
    /\ AroundTargetIdle
    /\ VideoLogIdle /\ TrialElectroIdle
SpecLight == LightSpecInit /\ [][LightNext]_vars

\* the rows of the log that are light events before the trial start
LightsBefore == {k \in 1..Len(log) : log[k].event = "light" /\ log[k].time < startTime}

\* the most recent of them: the latest, and the last in the log of those
\* that carry the latest time
MostRecentLight ==
    CHOOSE k \in LightsBefore :
        \A j \in LightsBefore :
            log[j].time < log[k].time \/ (log[j].time = log[k].time /\ j <= k)

\* C17: the light condition of a trial is "light" when no light event lies
\* strictly before the trial start or when the most recent of those that do
\* has code 1, and "dark" for every other code of it; light events at or
\* after the trial start have no part in it.
C17_LightBeforeStart ==
    tpc \in {"lightSet", "lightSetElectro"} =>
        light = IF LightsBefore = {} THEN "light"
                ELSE IF log[MostRecentLight].param = 1 THEN "light" ELSE "dark"

\* C17 witness: the light condition is dark by a light event of code 2
\* before the trial start, with a light event of code 1 at the trial start.
C17_Witness ==
    /\ tpc = "lightSet"
    /\ light = "dark"
    /\ Len(log) = 3
    /\ log[1] = [event |-> "light", param |-> 2, time |-> startTime - 1]
    /\ log[2].event = "door"
    /\ log[3] = [event |-> "light", param |-> 1, time |-> startTime]

\* ------------------------------------------------------------------------
\* NavPath.__init__, the part "angle around target" (navPath.py:208-240).
\* A position relative to the target is kept by its angle arctan2(y, x)
\* in whole degrees, in -179..180, or NaN for a position that is NaN; the
\* radius cancels in the angle of a rotated vector.
\* ------------------------------------------------------------------------

\* arctan2 of a vector of angle d, for d a difference of two angles: the
\* angle brought back to -179..180.
WrapDegrees(d) ==
    IF d > 180 THEN d - 360 ELSE IF d <= 0 - 180 THEN d + 360 ELSE d

\* The current vector times the rotation matrix of the previous vector is the
\* current vector turned by minus the angle of the previous one; arctan2 of
\* the result is the wrapped difference. NaN in either gives NaN.
diffAngle(prev, cur) ==
    IF IsNaN(prev) \/ IsNaN(cur) THEN NaN ELSE WrapDegrees(cur - prev)

diffAnimalAngleAroundTarget(pts) ==
    [i \in 1..(Len(pts) - 1) |-> diffAngle(pts[i], pts[i + 1])]

RECURSIVE cumsum(_)
\* np.cumsum: running sums; NaN from the first NaN on.
cumsum(d) ==
    IF Len(d) = 0 THEN <<>>
    ELSE LET before == cumsum(SubSeq(d, 1, Len(d) - 1))
             last == d[Len(d)]
         IN  IF Len(before) = 0 THEN <<last>>
             ELSE IF IsNaN(before[Len(before)]) \/ IsNaN(last)
                  THEN Append(before, NaN)
                  ELSE Append(before, before[Len(before)] + last)

notNaN(s) == SelectSeq(s, LAMBDA v : ~IsNaN(v))

\* np.ptp: largest minus smallest.
ptp(s) ==
    LET S == {s[i] : i \in 1..Len(s)} IN SetMax(S) - SetMin(S)

MaxTurnSteps == 12
BearingStep == 15
MaxFreePoints == 4

\* The angles of the samples of a path that goes around the target in n
\* equal steps, from the angle first, counterclockwise for dir = 1.
circlePath(first, n, dir) ==
    [i \in 1..(n + 1) |-> WrapDegrees(first + dir * (i - 1) * (360 \div n))]

CirclePaths ==
    {circlePath(BearingStep * k, n, dir) :
        k \in (0 - 11)..12,
        n \in {m \in 3..MaxTurnSteps : 360 % m = 0},
        dir \in {0 - 1, 1}}

\* Short paths that turn back, stand still or have samples without position.
\* No two of the angles are opposite: arctan2 of a vector along the negative
\* x axis depends on the sign of a rounding error.
FreePaths == SeqsFromTo({0 - 170, 0 - 80, 0, 80, 170, NaN}, 1, MaxFreePoints)

AroundTargetInit ==
    /\ animalPoints \in CirclePaths \cup FreePaths
    /\ cumSumDiffAngleAroundTarget = <<>>
    /\ endCumSumDiffAngleAroundTarget = NaN
    /\ rangeCumSumDiffAngleAroundTarget = NaN
    /\ apc = "angles"

\* navPath.py:221-228
CumSumDiffAngle ==
    /\ apc = "angles"
    /\ cumSumDiffAngleAroundTarget' =
           cumsum(diffAnimalAngleAroundTarget(animalPoints))
    /\ apc' = "cumsum"
    /\ UNCHANGED <<animalPoints, endCumSumDiffAngleAroundTarget,
                   rangeCumSumDiffAngleAroundTarget>>
    /\ UNCHANGED NotAroundTarget

\* navPath.py:230-239
EndAndRange ==
    /\ apc = "cumsum"
    /\ LET valid_ == notNaN(cumSumDiffAngleAroundTarget)
       IN  IF Len(valid_) > 2
           THEN /\ endCumSumDiffAngleAroundTarget' = valid_[Len(valid_)]
                /\ rangeCumSumDiffAngleAroundTarget' = ptp(valid_)
           ELSE /\ endCumSumDiffAngleAroundTarget' = NaN
                /\ rangeCumSumDiffAngleAroundTarget' = NaN
    /\ cumSumDiffAngleAroundTarget' = <<NaN>> \o cumSumDiffAngleAroundTarget
    /\ apc' = "done"
    /\ UNCHANGED animalPoints
    /\ UNCHANGED NotAroundTarget

AroundTargetNext == CumSumDiffAngle \/ EndAndRange

AroundTargetSpecInit ==
    /\ AroundTargetInit
    /\ LeverIdle /\ SessionIdle /\ TrialIdle /\ TrialListIdle /\ NavPathIdle
    /\ VideoLogIdle /\ TrialElectroIdle

SpecAroundTarget == AroundTargetSpecInit /\ [][AroundTargetNext]_vars

\* The path goes exactly once around the target on a circle: equal steps in
\* one direction that add up to one full turn.
OnceAround(pts) ==
    /\ Len(pts) >= 4
    /\ \A i \in 1..Len(pts) : ~IsNaN(pts[i])
    /\ LET d == diffAnimalAngleAroundTarget(pts)
       IN  /\ \A i \in 1..Len(d) : d[i] = d[1]
           /\ d[1] # 0
           /\ Abs(d[1]) * Len(d) = 360

\* C18: a path once around the target on a circle gives a range of the
\* cumulated angle of one full turn, 360 degrees, whatever the first angle.
C18_FullTurnRange ==
    (apc = "done" /\ OnceAround(animalPoints))
        => rangeCumSumDiffAngleAroundTarget = 360

\* ------------------------------------------------------------------------
\* The repeat repair of Session.segmentTrialsFromLog on runs of equal door
\* commands (session.py:281-297).
\* ------------------------------------------------------------------------

\* The door events the repeat repair starts from.
repairInput(lg) == dropTrailingOpen(dropLeadingCloses(doorEventsAfterStart(lg)))

\* Of every run of opens the last one, of every run of closes the first one.
runSurvivors(ev) ==
    LET keep == {k \in 1..Len(ev) :
                    IF ev[k].param = 0
                    THEN k = Len(ev) \/ ev[k + 1].param # 0
                    ELSE k = 1 \/ ev[k - 1].param # 1}
    IN  dropIndex(ev, {ev[k].index : k \in (1..Len(ev)) \ keep})

RepairFinished == spc \in {"done", "ValueError"}

\* C19: after the repeat repair, of every run of consecutive opens only the
\* last open is left and of every run of consecutive closes only the first
\* close, runs of three or more and events of equal time included.
C19_RunsKeepLastOpenFirstClose ==
    RepairFinished => doorEvents = runSurvivors(repairInput(log))

\* ------------------------------------------------------------------------
\* The journey starts of Trial.extractTrialFeatures (trial.py:538-557)
\* ------------------------------------------------------------------------

\* the frames of the trial labelled bridge or arenaCenter
BridgeArenaCenterFrames ==
    {i \in DOMAIN stateDF : stateDF[i].loca \in {"bridge", "arenaCenter"}}

\* the arenaCenter frames whose predecessor among those frames is a bridge frame
BridgeToArenaCenterFrames ==
    {i \in BridgeArenaCenterFrames :
        /\ stateDF[i].loca = "arenaCenter"
        /\ \E j \in BridgeArenaCenterFrames :
              /\ j < i
              /\ stateDF[j].loca = "bridge"
              /\ \A m \in BridgeArenaCenterFrames : ~(j < m /\ m < i)}

\* the first bridge or arenaCenter frame of the trial is an arenaCenter frame
BeginsInArenaCenter ==
    /\ BridgeArenaCenterFrames # {}
    /\ stateDF[SetMin(BridgeArenaCenterFrames)].loca = "arenaCenter"

ExpectedJourneyStarts ==
    {i - 1 : i \in BridgeToArenaCenterFrames}
        \cup (IF BeginsInArenaCenter
              THEN {SetMin(BridgeArenaCenterFrames) - 1} ELSE {})

JourneyStartsComputed == tpc \in {"journeys", "done", "TypeError"}

\* C20: the journey starts are the frame before every arenaCenter frame that
\* follows a bridge frame among the bridge and arenaCenter frames of the
\* trial, and the frame before the first arenaCenter frame when the trial
\* begins in arenaCenter; there is no other start, so their number is the
\* number of bridge-to-arenaCenter transitions plus one for such a beginning.
C20_JourneyStarts ==
    JourneyStartsComputed =>
        /\ journeyTransitionIndices = SortedSeq(ExpectedJourneyStarts)
        /\ Len(journeyTransitionIndices) =
               Cardinality(BridgeToArenaCenterFrames)
                   + (IF BeginsInArenaCenter THEN 1 ELSE 0)

\* The trial begins in arenaCenter, and later an arenaCenter frame follows a
\* bridge frame with frames of other labels between the two: two starts.
C20_Witness ==
    /\ tpc = "done"
    /\ BeginsInArenaCenter
    /\ \E i \in BridgeToArenaCenterFrames :
          stateDF[i - 1].loca \notin {"bridge", "arenaCenter"}
    /\ Len(journeyTransitionIndices) = 2

(***************************************************************************)
(* Lever.leverDistance                                                     *)
(***************************************************************************)

\* the loop of isAt, method "maxDistance", is about to take a point
AtMaxDistancePoint == lpc = "maxDistance" /\ Len(res) < Len(points)

RECURSIVE isAtMaxDistanceFrom(_, _, _, _, _)
isAtMaxDistanceFrom(at, pts, k, acc, maxDistance) ==
    IF k > Len(pts) THEN [isAtLever |-> at, res |-> acc]
    ELSE LET it == maxDistanceIteration(at, pts, k, maxDistance)
         IN isAtMaxDistanceFrom(it.isAtLever, pts, k + 1, Append(acc, it.res),
                                maxDistance)

\* what the loop that is running leaves and returns, from where it stands
isAtOutcome ==
    IF lpc = "zones"
    THEN isAtZonesFrom(isAtLever, points, Len(res) + 1, res)
    ELSE isAtMaxDistanceFrom(isAtLever, points, Len(res) + 1, res,
                             leverZoneMaxDistance)

\* isAt(points) from the state at, by the method of the running call
isAtFrom(at, pts) ==
    IF lpc = "zones" THEN isAtZones(at, pts)
    ELSE isAtMaxDistanceFrom(at, pts, 1, <<>>, leverZoneMaxDistance)

InIsAtLoop == lpc \in {"zones", "maxDistance"}
IsAtEntered == InIsAtLoop /\ res = <<>>

\* A call on A and then a call on B return together what one call on A ++ B
\* returns and leave the state it leaves, for every way of cutting the
\* points of the call that was entered into A and B.
ConcatenationHolds ==
    \A n \in 0..Len(points) :
        LET A == SubSeq(points, 1, n)
            B == SubSeq(points, n + 1, Len(points))
            afterA == isAtFrom(isAtLever, A)
            afterB == isAtFrom(afterA.isAtLever, B)
            whole == isAtFrom(isAtLever, points)
        IN  /\ whole.res = afterA.res \o afterB.res
            /\ whole.isAtLever = afterB.isAtLever

\* C29: the at-lever state is false at construction; entering isAt leaves it
\* as the call before left it; and for both methods what a call returns is a
\* function of that state and the points alone, point after point, so that
\* isAt(A ++ B) = isAt(A) ++ isAt(B) on the same Lever.
C29_StateCarriesOver ==
    /\ ~isAtLever
    /\ [][IsAtCallStep => isAtLever' = isAtLever]_vars
    /\ [](IsAtEntered => ConcatenationHolds)
    /\ [][InIsAtLoop =>
            IF lpc' = "idle"
            THEN res = isAtOutcome.res /\ isAtLever = isAtOutcome.isAtLever
            ELSE isAtOutcome' = isAtOutcome]_vars

\* C29 witness: a call on the point beside the lever alone returned true on
\* a Lever that an earlier call had left at the lever; on a new Lever the
\* same call returns false.
C29_Witness ==
    /\ lret = "returned"
    /\ points = <<PBetween>>
    /\ res = <<TRUE>>
    /\ isAtLever
    /\ ~isAtZones(FALSE, points).res[1]

(***************************************************************************)
(* The sub-paths of a Journey with a lever press                           *)
(***************************************************************************)

\* the journeys of journeyList with a lever press
PressedJourneys == {k \in 1..Len(journeyList) : journeyList[k].base.leverPressed}
JourneyIx(k) == journeyList[k].index[1]
\* the first lever press of journey k
JourneyPress(k) ==
    SelectSeq(leverPress,
              LAMBDA r : r.videoIndex > journeyList[k].base.startIndex
                           /\ r.videoIndex < journeyList[k].base.endIndex)[1].videoIndex
\* the frames of journey k
JourneyFrames(k) ==
    {i \in DOMAIN stateDF : i >= journeyList[k].base.startIndex
                              /\ i <= journeyList[k].base.endIndex}
\* the lever-labelled frames of journey k after the start of searchArena and
\* before the first press
LeverFramesBeforePress(k) ==
    {i \in JourneyFrames(k) : /\ stateDF[i].loca = "lever"
                              /\ i > JourneyIx(k).searchArenaStartIndex
                              /\ i < JourneyPress(k)}

\* C21: searchArenaNoLever starts where searchArena starts and ends at the
\* first lever-labelled frame after the last bridge frame before the press
\* and before the first press; with no such frame it ends at the frame of
\* the first lever press.
C21_SearchArenaNoLeverEnd ==
    \A k \in PressedJourneys :
        /\ JourneyIx(k).searchArenaNoLeverStartIndex = JourneyIx(k).searchArenaStartIndex
        /\ JourneyIx(k).searchArenaNoLeverEndIndex =
              IF LeverFramesBeforePress(k) = {} THEN JourneyPress(k)
              ELSE SetMin(LeverFramesBeforePress(k))

\* the bridge-labelled frames of the trial before and after a frame
BridgeFramesBefore(f) == {i \in DOMAIN stateDF : stateDF[i].loca = "bridge" /\ i < f}
BridgeFramesAfter(f) == {i \in DOMAIN stateDF : stateDF[i].loca = "bridge" /\ i > f}

\* C22: searchArena starts at the last bridge-labelled frame before the first
\* lever press, or at the start of the trial when there is none; homingTotal
\* ends at the first bridge-labelled frame after the press, or at the end of
\* the trial when there is none; and searchArena start <= press <=
\* homingTotal end.
C22_BridgeFallback ==
    \A k \in PressedJourneys :
        LET press == JourneyPress(k)
        IN  /\ JourneyIx(k).searchArenaStartIndex =
                  IF BridgeFramesBefore(press) = {} THEN startVideoIndex
                  ELSE SetMax(BridgeFramesBefore(press))
            /\ JourneyIx(k).homingTotalEndIndex =
                  IF BridgeFramesAfter(press) = {} THEN endVideoIndex
                  ELSE SetMin(BridgeFramesAfter(press))
            /\ JourneyIx(k).searchArenaStartIndex <= press
            /\ press <= JourneyIx(k).homingTotalEndIndex

\* the start and end index of the six sub-paths of journey k
SubPathBounds(k) ==
    LET ix == JourneyIx(k)
    IN  [searchTotal |-> <<ix.searchTotalStartIndex, ix.searchTotalEndIndex>>,
         searchArena |-> <<ix.searchArenaStartIndex, ix.searchArenaEndIndex>>,
         searchArenaNoLever |-> <<ix.searchArenaNoLeverStartIndex,
                                  ix.searchArenaNoLeverEndIndex>>,
         homingTotal |-> <<ix.homingTotalStartIndex, ix.homingTotalEndIndex>>,
         homingPeri |-> <<ix.homingPeriStartIndex, ix.homingPeriEndIndex>>,
         homingPeriNoLever |-> <<ix.homingPeriNoLeverStartIndex,
                                 ix.homingPeriNoLeverEndIndex>>]
SearchPaths == {"searchTotal", "searchArena", "searchArenaNoLever"}
HomingPaths == {"homingTotal", "homingPeri", "homingPeriNoLever"}

\* C28: in a journey with a lever press each of the six sub-paths starts at
\* or before its end, inside the journey; the search paths end at or before
\* the first press and the homing paths start at or after it.
C28_SubPathsOrdered ==
    \A k \in PressedJourneys :
        LET b == SubPathBounds(k)
            jb == journeyList[k].base
        IN  /\ \A n \in SearchPaths \cup HomingPaths :
                  /\ b[n][1] <= b[n][2]
                  /\ jb.startIndex <= b[n][1]
                  /\ b[n][2] <= jb.endIndex
            /\ \A n \in SearchPaths : b[n][2] <= JourneyPress(k)
            /\ \A n \in HomingPaths : b[n][1] >= JourneyPress(k)

(***************************************************************************)
(* The journey of the first lever press of a valid trial                   *)
(***************************************************************************)

FirstPressFrame == leverPress[1].videoIndex
\* the journeys whose index range holds the frame of the first press
JourneysHoldingPress ==
    {k \in 1..Len(journeyList) :
        /\ journeyList[k].base.startIndex <= FirstPressFrame
        /\ FirstPressFrame <= journeyList[k].base.endIndex}
\* the journeys that count the first press among their presses
JourneysCountingPress ==
    {k \in 1..Len(journeyList) :
        /\ journeyList[k].base.leverPressed
        /\ journeyList[k].base.startIndex < FirstPressFrame
        /\ FirstPressFrame < journeyList[k].base.endIndex}

TrialDone == tpc = "done" /\ valid

\* C27: in a valid trial the journey whose index range holds the frame of
\* the first lever press has leverPressed true, also when that frame is the
\* first or the last of the journey; no other journey counts the press; and
\* the pathD of the trial is the pathD of a journey with a lever press, its
\* search and homing paths computed.
C27_PressInOneJourney ==
    TrialDone =>
        /\ \A k \in JourneysHoldingPress : journeyList[k].base.leverPressed
        /\ Cardinality(JourneysCountingPress) = 1
        /\ JourneysCountingPress \subseteq JourneysHoldingPress
        /\ \E k \in PressedJourneys : pathD = journeyList[k].pathD

(***************************************************************************)
(* NavPath.speedProfile                                                    *)
(***************************************************************************)

\* the samples of the pose with a position
validSamples(rows) == Cardinality({k \in 1..Len(rows) : ~IsNaN(rows[k][1])})

\* C23: the speed profile of a valid path is computed when the path has at
\* least 10 samples with a position, and is undefined otherwise; a path of
\* exactly 10 such samples has a computed speed profile.
C23_SpeedProfileFromTenSamples ==
    (npc = "done" /\ ~pPose.none) =>
        statistics["speedProfile"] =
            IF validSamples(pPose.rows) >= 10 THEN "computed" ELSE "undefined"

(***************************************************************************)
(* Session.fixVideoLog                                                     *)
(*                                                                         *)
(* Row k of vlog is the row of index k - 1 of the data frame vl.           *)
(***************************************************************************)

\* np.sum(vl.frame_number.diff() != 1): the diff of the first row is NaN
diffNotOne(v) ==
    Cardinality({k \in 1..Len(v) :
                    k = 1 \/ v[k].frame_number - v[k-1].frame_number # 1})

\* vl.index[vl.frame_number != vl.index]
problemIndices(v) == {k - 1 : k \in {m \in 1..Len(v) : v[m].frame_number # m - 1}}

\* pd.concat([df1, df2, df3]) with the index set anew: a row with the frame
\* number before that of the row of index first, put in before it
insertMissing(v, first) ==
    LET df1 == SubSeq(v, 1, first)
        df2 == <<[frame_number |-> v[first + 1].frame_number - 1,
                  time |-> v[first].time + v[first + 1].time - v[first].time]>>
        df3 == SubSeq(v, first + 1, Len(v))
    IN  df1 \o df2 \o df3

MaxVideoRows == 5
MaxFrameNumber == 6

\* the video logs: frame numbers that never decrease, one row per FrameTicks
VideoLogs ==
    {[k \in 1..Len(f) |-> [frame_number |-> f[k], time |-> FrameTicks * k]] :
        f \in {g \in SeqsUpTo(0..MaxFrameNumber, MaxVideoRows) :
                  \A k \in 1..(Len(g) - 1) : g[k] <= g[k + 1]}}

VideoLogInit ==
    /\ vlog \in VideoLogs
    /\ addCount = 0
    /\ fpc = "while"

\* session.py:199: the test of the while loop
FixWhile ==
    /\ fpc = "while"
    /\ fpc' = IF diffNotOne(vlog) > 1 THEN "body" ELSE "returned"
    /\ UNCHANGED <<vlog, addCount>>
    /\ UNCHANGED NotVideoLog

firstProblemIndex == SetMin(problemIndices(vlog))

\* session.py:205-206: a frame number below its index is reported, and the
\* loop goes on with vl as it is
FixDuplicate ==
    /\ fpc = "body"
    /\ vlog[firstProblemIndex + 1].frame_number < firstProblemIndex
    /\ fpc' = "while"
    /\ UNCHANGED <<vlog, addCount>>
    /\ UNCHANGED NotVideoLog

\* session.py:207-225: a row is put in before the first problem index
FixMissing ==
    /\ fpc = "body"
    /\ ~(vlog[firstProblemIndex + 1].frame_number < firstProblemIndex)
    /\ firstProblemIndex > 0
    /\ vlog' = insertMissing(vlog, firstProblemIndex)
    /\ addCount' = addCount + 1
    /\ fpc' = "while"
    /\ UNCHANGED NotVideoLog

\* session.py:214: vl.time[firstProblemIndex-1] for the index 0 looks up the
\* label -1
FixMissingKeyError ==
    /\ fpc = "body"
    /\ ~(vlog[firstProblemIndex + 1].frame_number < firstProblemIndex)
    /\ firstProblemIndex = 0
    /\ fpc' = "KeyError"
    /\ UNCHANGED <<vlog, addCount>>
    /\ UNCHANGED NotVideoLog

VideoLogNext == FixWhile \/ FixDuplicate \/ FixMissing \/ FixMissingKeyError

VideoLogSpecInit ==
    /\ VideoLogInit
    /\ LeverIdle /\ SessionIdle /\ TrialIdle /\ TrialListIdle /\ NavPathIdle
    /\ AroundTargetIdle /\ TrialElectroIdle

\* the function runs on as long as it has a step to take
SpecVideoLog ==
    VideoLogSpecInit /\ [][VideoLogNext]_vars /\ WF_vars(VideoLogNext)

IncreasesByOne(v) ==
    \A k \in 1..(Len(v) - 1) : v[k + 1].frame_number = v[k].frame_number + 1

\* C26: fixVideoLog returns for every video log, with missing as well as
\* with duplicated frame numbers, and in the log it returns the frame
\* numbers increase by 1 from each row to the next.
C26_FixVideoLogReturns ==
    /\ <>(fpc = "returned")
    /\ [](fpc = "returned" => IncreasesByOne(vlog))

(***************************************************************************)
(* TrialElectro: setMousePosition, setPositionZones, checkTrialValidity    *)
(*                                                                         *)
(* Lengths in 1/20 cm with the centre of the arena at the origin; the      *)
(* bridge lies below the arena, towards negative y.  The lever of the      *)
(* trial is leverCm.                                                       *)
(***************************************************************************)

\* TrialElectro.zones after setArenaRadius(40) and setZoneAreas: circles as
\* <<x, y, radius>>, rectangles as <<x, y, width, height>> from their
\* bottom-left corner.  The bridge is 12 cm long and ends 42 cm below the
\* centre; the home base is 30 cm by 25 cm below the bridge.
zones ==
    [arena |-> <<0, 0, arenaRadiusCm>>,
     arenaCenter |-> <<0, 0, radiusPeripheryCm>>,
     bridge |-> <<0 - 100, 0 - 1080, 200, 240>>,
     homeBase |-> <<0 - 300, 0 - 1580, 600, 500>>]

\* the y coordinate relative to the bottom of a rectangle is above 0 and
\* below its height; a NaN compares false
onRectangleY(p, rect) ==
    /\ ~IsNaN(p[2])
    /\ p[2] - rect[2] > 0
    /\ p[2] - rect[2] < rect[4]

\* gap: above the top of the bridge and below y = -40 cm
gapElectro(p) ==
    /\ ~IsNaN(p[2])
    /\ p[2] - zones.bridge[2] > zones.bridge[4]
    /\ p[2] < 0 - 800

\* DataFrame.idxmax(1) of positionZones: the first of the columns lever,
\* arenaCenter, arena, bridge, homeBase, gap that holds the largest value of
\* the row: the first that is true, and lever when none is
idxmaxElectro(row) ==
    IF row.lever THEN "lever"
    ELSE IF row.arenaCenter THEN "arenaCenter"
    ELSE IF row.arena THEN "arena"
    ELSE IF row.bridge THEN "bridge"
    ELSE IF row.homeBase THEN "homeBase"
    ELSE IF row.gap THEN "gap"
    ELSE "lever"

\* the positionZones data frame of the positions pts
setPositionZones(pts) ==
    LET lever == isAtZones(FALSE, pts).res
    IN  [k \in 1..Len(pts) |->
            LET row == [lever |-> lever[k],
                        arenaCenter |-> distanceFromArenaCenterBelow(pts[k], zones.arenaCenter[3]),
                        arena |-> distanceFromArenaCenterBelow(pts[k], zones.arena[3]),
                        bridge |-> onRectangleY(pts[k], zones.bridge),
                        homeBase |-> onRectangleY(pts[k], zones.homeBase),
                        gap |-> gapElectro(pts[k])]
            IN  [lever |-> row.lever, arenaCenter |-> row.arenaCenter,
                 arena |-> row.arena, bridge |-> row.bridge,
                 homeBase |-> row.homeBase, gap |-> row.gap,
                 loca |-> idxmaxElectro(row)]]

\* np.sum(self.positionZones["arena"]) < 0
arenaSumBelowZero(pz) == Cardinality({k \in 1..Len(pz) : pz[k].arena}) < 0

\* ---- inputs ----
EArena == <<0, 0 - 760>>     \* on the arena, beyond the arena centre
EGap == <<0, 0 - 820>>       \* between the arena and the bridge
EBridge == <<0, 0 - 1000>>   \* on the bridge
EBridgeEnd == <<0, 0 - 1080>> \* on the line between the bridge and the home base
EHomeBase == <<0, 0 - 1300>> \* in the home base
EOutside == <<0, 820>>       \* beyond the arena, away from the bridge
ElectroPoints ==
    {PLever, PBetween, PCenter, PMissing, EArena, EGap, EBridge, EBridgeEnd,
     EHomeBase, EOutside}
MaxElectroFrames == 3
\* a run of positions on the bridge, long enough for a valid trial
PadElectro == [k \in 1..MinValidDetections |-> EBridge]

TrialElectroInit ==
    /\ \E pd \in BOOLEAN, fr \in SeqsUpTo(ElectroPoints, MaxElectroFrames) :
          mousePose = (IF pd THEN PadElectro ELSE <<>>) \o fr
    /\ positionZones = <<>>
    /\ validElectro = TRUE
    /\ epc = "mouse"

\* TrialElectro.setMousePosition
SetMousePosition ==
    /\ epc = "mouse"
    /\ validElectro' =
          IF Len(mousePose) = 0 THEN FALSE
          ELSE IF Cardinality({k \in 1..Len(mousePose) : ~IsNaN(mousePose[k][1])})
                      < MinValidDetections
               THEN FALSE ELSE validElectro
    /\ epc' = "zones"
    /\ UNCHANGED <<mousePose, positionZones>>
    /\ UNCHANGED NotTrialElectro

\* TrialElectro.setPositionZones
SetPositionZones ==
    /\ epc = "zones"
    /\ positionZones' = setPositionZones(mousePose)
    /\ epc' = "validity"
    /\ UNCHANGED <<mousePose, validElectro>>
    /\ UNCHANGED NotTrialElectro

\* TrialElectro.checkTrialValidity
CheckTrialValidity ==
    /\ epc = "validity"
    /\ validElectro' = IF arenaSumBelowZero(positionZones) THEN FALSE ELSE validElectro
    /\ epc' = "done"
    /\ UNCHANGED <<mousePose, positionZones>>
    /\ UNCHANGED NotTrialElectro

TrialElectroNext == SetMousePosition \/ SetPositionZones \/ CheckTrialValidity

TrialElectroSpecInit ==
    /\ TrialElectroInit
    /\ LeverIdle /\ SessionIdle /\ TrialIdle /\ TrialListIdle /\ NavPathIdle
    /\ AroundTargetIdle /\ VideoLogIdle

SpecTrialElectro == TrialElectroSpecInit /\ [][TrialElectroNext]_vars

ZoneNames == {"lever", "arenaCenter", "arena", "bridge", "homeBase", "gap"}

\* C30: the label of every frame of positionZones names a zone whose boolean
\* is true for the frame; a frame with none of the six booleans true is not
\* labelled lever, and lever is the label only where the lever test is true.
C30_LabelNamesTrueZone ==
    \A k \in 1..Len(positionZones) :
        /\ positionZones[k].loca \in ZoneNames
        /\ positionZones[k][positionZones[k].loca]

\* C25: checkTrialValidity sets valid to false when no frame of the trial is
\* on the arena, and leaves valid as it was when a frame is.
C25_ValidNeedsArena ==
    [][epc = "validity" =>
          validElectro' = IF \E k \in 1..Len(positionZones) : positionZones[k].arena
                          THEN validElectro ELSE FALSE]_vars

====
